---- MODULE Spec2Model ----
(***************************************************************************)
(* Forecast generation and caching pipeline of the crypto market-data API. *)
(*                                                                         *)
(* The model follows app/services/prediction.py (staleness policy,         *)
(* generation pass, response assembly), app/core/cache.py (read-through    *)
(* cache over Redis) and the parts of app/services/market_data.py the      *)
(* pipeline calls.  Time is counted in whole minutes.  Prices are whole    *)
(* currency units.  Probabilities, confidence scores and factor impacts    *)
(* are computed and stored in ten-thousandths; the DECIMAL(3,2) columns    *)
(* of the predictions table round them to hundredths when they are read.   *)
(***************************************************************************)
EXTENDS Integers, Sequences, FiniteSets, TLC

VARIABLES
    clock,            \* datetime.utcnow(), in minutes
    predictions,      \* rows of the predictions table (the Prediction Store)
    market_data,      \* rows of the market_data table, per symbol, ordered by timestamp
    redis,            \* the Redis keyspace: key -> [payload, expires_at]
    SIMPLE_BOOTSTRAP, \* settings.SIMPLE_BOOTSTRAP
    ENABLE_EXTERNAL_MARKET_DATA, \* settings.ENABLE_EXTERNAL_MARKET_DATA
    calls,            \* number of calls made so far
    faulty_calls,     \* number of calls during which something failed
    last,             \* the last call made: its arguments, what it did, what it returned
    history,          \* one summary per call made, oldest first
    inflight          \* per worker, the request it is serving: where it is, its locals

vars == <<clock, predictions, market_data, redis, SIMPLE_BOOTSTRAP,
          ENABLE_EXTERNAL_MARKET_DATA, calls, faulty_calls, last, history, inflight>>

(***************************************************************************)
(* Bounds of the model.                                                    *)
(***************************************************************************)
MaxCalls == 3         \* calls made in one behaviour
MaxFaults == 1        \* things that fail during one call
MaxFaultyCalls == 1   \* calls of one behaviour during which something fails
MaxPasses == 1        \* applications of the Forecast Engine in one behaviour of SpecEngine
MaxMixedCalls == 2    \* calls made in one behaviour of SpecPipeline

\* Minutes that pass between one call and the next.
ClockSteps == {15, 45}

\* Optional values (None or a value): the empty sequence, or a one-element sequence.
None == <<>>
Some(x) == <<x>>

(***************************************************************************)
(* Program constants.                                                      *)
(***************************************************************************)
MIN_HISTORY_POINTS == 48
MODEL_VERSION == "prophet-1.1.5"
FALLBACK_VERSION == "prophet-ma-fallback"
StalenessMinutes == 45
CacheTtlSeconds == 3600
CacheTtlMinutes == CacheTtlSeconds \div 60
MARKET_DATA_LOOKBACK_DAYS == 30

(***************************************************************************)
(* Generic helpers.                                                        *)
(***************************************************************************)
Max(a, b) == IF a >= b THEN a ELSE b
Min(a, b) == IF a <= b THEN a ELSE b
Abs(a) == IF a >= 0 THEN a ELSE -a

Range(s) == {s[i] : i \in 1..Len(s)}

SetMax(S) == CHOOSE m \in S : \A x \in S : x <= m

\* sum(s), by halves.
RECURSIVE SeqSum(_)
SeqSum(s) ==
    IF s = <<>> THEN 0
    ELSE IF Len(s) = 1 THEN s[1]
    ELSE LET half == Len(s) \div 2
         IN  SeqSum(SubSeq(s, 1, half)) + SeqSum(SubSeq(s, half + 1, Len(s)))

\* Largest r with r * r <= n.
ISqrt(n) == CHOOSE r \in 0..n : r * r <= n /\ (r + 1) * (r + 1) > n

\* str.upper() on the symbols of the model.
Upper(symbol) ==
    CASE symbol = "btc" -> "BTC"
      [] symbol = "eth" -> "ETH"
      [] OTHER -> symbol

\* int(flag) rendered by an f-string.
BoolDigit(flag) == IF flag THEN "1" ELSE "0"

(***************************************************************************)
(* Horizons.                                                               *)
(***************************************************************************)
\* HORIZON_TO_HOURS.get(h, 24)
HorizonHours(h) ==
    CASE h = "1h" -> 1
      [] h = "4h" -> 4
      [] h = "24h" -> 24
      [] h = "1d" -> 24
      [] h = "7d" -> 24 * 7
      [] OTHER -> 24

\* list(HORIZON_TO_HOURS.values())
AllHorizonHours == <<1, 4, 24, 24, 24 * 7>>

\* _format_horizon: the first key of HORIZON_TO_HOURS with that value.
format_horizon(hours) ==
    CASE hours = 1 -> "1h"
      [] hours = 4 -> "4h"
      [] hours = 24 -> "24h"
      [] hours = 24 * 7 -> "7d"
      [] OTHER -> ToString(hours) \o "h"

\* list(dict.fromkeys(xs)): first occurrences, in order.
RECURSIVE Dedupe(_)
Dedupe(xs) ==
    IF xs = <<>> THEN <<>>
    ELSE LET front == Dedupe(SubSeq(xs, 1, Len(xs) - 1))
             x == xs[Len(xs)]
         IN  IF x \in Range(front) THEN front ELSE Append(front, x)

\* target_hours of get_predictions (an empty list and None are both falsy).
TargetHours(horizons) ==
    Dedupe(IF horizons # <<>>
           THEN [i \in 1..Len(horizons) |-> HorizonHours(horizons[i])]
           ELSE AllHorizonHours)

\* Python's order on the horizon strings (code point order).
StringOrder == <<"1d", "1h", "1h,4h", "24h", "2h", "4h", "7d", "default">>
StringRank(s) == CHOOSE i \in 1..Len(StringOrder) : StringOrder[i] = s

\* sorted(horizons)
RECURSIVE SortedStrings(_)
SortedStrings(xs) ==
    IF xs = <<>> THEN <<>>
    ELSE LET i == CHOOSE j \in 1..Len(xs) :
                      \A k \in 1..Len(xs) : StringRank(xs[j]) <= StringRank(xs[k])
             rest == [k \in 1..(Len(xs) - 1) |-> IF k < i THEN xs[k] ELSE xs[k + 1]]
         IN  <<xs[i]>> \o SortedStrings(rest)

\* ",".join(xs)
RECURSIVE Join(_)
Join(xs) ==
    IF xs = <<>> THEN ""
    ELSE IF Len(xs) = 1 THEN xs[1]
    ELSE xs[1] \o "," \o Join(Tail(xs))

(***************************************************************************)
(* Fixed-point arithmetic.  Factors, probabilities and scores are carried  *)
(* in basis points (1/10000) while they are computed; a DECIMAL(3,2)       *)
(* column hands them back in hundredths.                                   *)
(***************************************************************************)
\* Numeric(3, 2) result processor: the value read back has two decimals.
Decimal2(bp) == (bp + 50) \div 100

(***************************************************************************)
(* Prediction Store queries.                                               *)
(***************************************************************************)
\* The rows oldest first: the order a query without desc() gives.
RECURSIVE OrderByTimeAsc(_)
OrderByTimeAsc(rows) ==
    IF rows = {} THEN <<>>
    ELSE LET oldest == CHOOSE r \in rows :
                           \A q \in rows : q.prediction_time >= r.prediction_time
         IN  <<oldest>> \o OrderByTimeAsc(rows \ {oldest})

\* ORDER BY prediction_time DESC over a set of rows.
RECURSIVE OrderByTimeDesc(_)
OrderByTimeDesc(rows) ==
    IF rows = {} THEN <<>>
    ELSE LET newest == CHOOSE r \in rows :
                           \A q \in rows : q.prediction_time <= r.prediction_time
         IN  <<newest>> \o OrderByTimeDesc(rows \ {newest})

\* db.query(Prediction).filter(symbol == ..., horizon_hours.in_(...))
\*   .order_by(desc(prediction_time)).all()
QueryPredictions(store, symbol, target_hours) ==
    OrderByTimeDesc({r \in store : r.symbol = symbol
                                   /\ r.horizon_hours \in Range(target_hours)})

\* A grouping that keeps the last record met for each horizon.
group_by_horizon_last(records) ==
    [h \in {records[i].horizon_hours : i \in 1..Len(records)} |->
        records[CHOOSE i \in 1..Len(records) :
                    /\ records[i].horizon_hours = h
                    /\ \A j \in (i + 1)..Len(records) : records[j].horizon_hours # h]]

\* _group_by_horizon: the first record met for each horizon.
group_by_horizon(records) ==
    [h \in {records[i].horizon_hours : i \in 1..Len(records)} |->
        records[CHOOSE i \in 1..Len(records) :
                    /\ records[i].horizon_hours = h
                    /\ \A j \in 1..(i - 1) : records[j].horizon_hours # h]]

(***************************************************************************)
(* Staleness policy.                                                       *)
(***************************************************************************)
\* A staleness policy with the comparison turned round: it refreshes what is
\* fresh and reuses what is stale.
needs_refresh_reversed(records, target_hours, now) ==
    \/ records = <<>>
    \/ \E h \in Range(target_hours) :
          \A i \in 1..Len(records) : records[i].horizon_hours # h
    \/ \E i \in 1..Len(records) : records[i].prediction_time > now - 45

\* A staleness policy that already refreshes records exactly 45 minutes old.
needs_refresh_inclusive(records, target_hours, now) ==
    \/ records = <<>>
    \/ \E h \in Range(target_hours) :
          \A i \in 1..Len(records) : records[i].horizon_hours # h
    \/ \A i \in 1..Len(records) : records[i].prediction_time <= now - 45

\* _needs_refresh, with datetime.utcnow() passed as now.
needs_refresh(records, target_hours, now) ==
    IF records = <<>> THEN TRUE
    ELSE LET grouped == group_by_horizon(records)
         IN  IF ~(Range(target_hours) \subseteq DOMAIN grouped) THEN TRUE
             ELSE LET latest_time ==
                          SetMax({grouped[h].prediction_time : h \in DOMAIN grouped})
                  IN  latest_time < now - StalenessMinutes

(***************************************************************************)
(* Response assembly.                                                      *)
(***************************************************************************)
\* Names of the features a record may carry, in sorted() order.
FeatureOrder == <<"daily", "market_correlation", "momentum", "moving_average",
                  "sentiment", "trend", "volatility", "volume", "volume_momentum",
                  "weekly">>

\* [PredictionFactor(name, impact) for name, value in sorted(features.items())]
SortedFactors(features) ==
    LET names == SelectSeq(FeatureOrder, LAMBDA n : n \in DOMAIN features)
    IN  [i \in 1..Len(names) |-> [name |-> names[i], impact |-> features[names[i]]]]

\* _build_prediction_item
build_prediction_item(record, include_confidence, include_factors) ==
    [horizon |-> format_horizon(record.horizon_hours),
     predicted_price |-> record.predicted_price,
     confidence_interval |->
        IF include_confidence /\ record.confidence_lower # None
                              /\ record.confidence_upper # None
        THEN Some([lower |-> record.confidence_lower[1],
                   upper |-> record.confidence_upper[1],
                   confidence |-> IF record.confidence_score = None
                                     \/ record.confidence_score = Some(0)
                                  THEN 80
                                  ELSE Decimal2(record.confidence_score[1])])
        ELSE None,
     probability |->
        IF record.accuracy_score # None
        THEN Some([up |-> Max(Min(Decimal2(record.accuracy_score[1]), 99), 1),
                   down |-> Max(Min(100 - Decimal2(record.accuracy_score[1]), 99), 1)])
        ELSE None,
     factors |->
        IF include_factors /\ record.features_used # None
                           /\ DOMAIN record.features_used[1] # {}
        THEN Some(SortedFactors(record.features_used[1]))
        ELSE None,
     model_version |-> record.model_version,
     generated_at |-> record.prediction_time]

\* A simulated response that ignores the horizons asked for.
fallback_default_only(symbol, horizons, include_confidence, include_factors, now) ==
    [symbol |-> symbol,
     current_price |-> 20000,
     predictions |->
        <<[horizon |-> "24h", predicted_price |-> 20000,
           confidence_interval |->
              IF include_confidence
              THEN Some([lower |-> 19000, upper |-> 21000, confidence |-> 80])
              ELSE None,
           probability |-> Some([up |-> 55, down |-> 45]),
           factors |-> None,
           model_version |-> "simulated",
           generated_at |-> now]>>]

\* _fallback_prediction_response: the static simulated response.
fallback_prediction_response(symbol, horizons, include_confidence, include_factors, now) ==
    LET asked == IF horizons # <<>> THEN horizons ELSE <<"24h">>
    IN  [symbol |-> symbol,
         current_price |-> 20000,
         predictions |->
            [i \in 1..Len(asked) |->
                [horizon |-> asked[i],
                 predicted_price |-> 20000 + (i - 1) * 75,
                 confidence_interval |->
                    IF include_confidence
                    THEN Some([lower |-> 19000, upper |-> 21000, confidence |-> 80])
                    ELSE None,
                 probability |-> Some([up |-> 55, down |-> 45]),
                 factors |->
                    IF include_factors
                    THEN Some(<<[name |-> "momentum", impact |-> 2500],
                                [name |-> "volatility", impact |-> 1500]>>)
                    ELSE None,
                 model_version |-> "simulated",
                 generated_at |-> now]]]

(***************************************************************************)
(* Market History Store.  A row carries the columns the pipeline reads.    *)
(* The table of a symbol is kept ordered by timestamp (rows with the same  *)
(* timestamp in insertion order): the order every query of it asks for.    *)
(***************************************************************************)
\* ORDER BY timestamp of rows listed in insertion order.
OrderByTimestamp(rows) ==
    IF \A i \in 1..(Len(rows) - 1) : rows[i].timestamp <= rows[i + 1].timestamp THEN rows
    ELSE [k \in 1..Len(rows) |->
            rows[CHOOSE i \in 1..Len(rows) :
                     Cardinality({j \in 1..Len(rows) :
                                     \/ rows[j].timestamp < rows[i].timestamp
                                     \/ rows[j].timestamp = rows[i].timestamp /\ j <= i}) = k]]

\* for candle in candles: _store_market_row(...), then commit.
\* _store_market_row looks the (symbol, timestamp) pair up with a query; with
\* autoflush off the query sees the rows that were there when the transaction
\* began (`rows`), not the rows added earlier in the loop.  The first row of a
\* timestamp a candle carries is overwritten with the candle's values (the last
\* candle of that timestamp stays); a candle whose timestamp is not found adds
\* a row.  So the table ends with the rows no candle touched and the candles
\* that were written.
store_market_rows(rows, candles) ==
    LET stamps == {candles[k].timestamp : k \in 1..Len(candles)}
        known == {rows[i].timestamp : i \in 1..Len(rows)}
        first(i) == \A j \in 1..(i - 1) : rows[j].timestamp # rows[i].timestamp
        final(k) == \A j \in (k + 1)..Len(candles) :
                        candles[j].timestamp # candles[k].timestamp
        kept == SelectSeq([i \in 1..Len(rows) |-> i],
                          LAMBDA i : rows[i].timestamp \notin stamps \/ ~first(i))
        untouched ==
            IF Cardinality(known) = Len(rows)
            THEN SelectSeq(rows, LAMBDA r : r.timestamp \notin stamps)
            ELSE [n \in 1..Len(kept) |-> rows[kept[n]]]
        stored == SelectSeq([k \in 1..Len(candles) |-> k],
                            LAMBDA k : candles[k].timestamp \notin known \/ final(k))
        written ==
            IF Cardinality(stamps) = Len(candles) THEN candles
            ELSE [n \in 1..Len(stored) |-> candles[stored[n]]]
    IN  OrderByTimestamp(untouched \o written)

\* fetch_market_history: nothing when external market data is disabled or the
\* upstream returns no candles.
fetch_market_history(rows, candles, enabled) ==
    IF ~enabled \/ candles = <<>> THEN rows ELSE store_market_rows(rows, candles)

\* .order_by(timestamp.desc()).limit(limit).all(), reversed
RecentRows(rows, limit) ==
    SubSeq(rows, Max(1, Len(rows) - limit + 1), Len(rows))

\* df.drop_duplicates(subset="ds"): the first row of each timestamp.
DropDuplicates(frame) ==
    IF Cardinality({frame[i].ds : i \in 1..Len(frame)}) = Len(frame) THEN frame
    ELSE LET numbered == [i \in 1..Len(frame) |-> [at |-> i, row |-> frame[i]]]
             firsts == SelectSeq(numbered,
                           LAMBDA p : \A j \in 1..(p.at - 1) : frame[j].ds # p.row.ds)
         IN  [i \in 1..Len(firsts) |-> firsts[i].row]

\* df.sort_values("ds") of a frame without duplicate timestamps.
SortByDs(frame) ==
    IF \A i \in 1..(Len(frame) - 1) : frame[i].ds <= frame[i + 1].ds THEN frame
    ELSE [k \in 1..Len(frame) |->
            frame[CHOOSE i \in 1..Len(frame) :
                      Cardinality({j \in 1..Len(frame) : frame[j].ds <= frame[i].ds}) = k]]

\* A training frame that keeps the rows that repeat a timestamp.
prepare_training_frame_keep_duplicates(records) ==
    SortByDs([i \in 1..Len(records) |->
                 [ds |-> records[i].timestamp, y |-> records[i].close]])

\* _prepare_training_frame (close is NOT NULL, so dropna drops nothing).
prepare_training_frame(records) ==
    SortByDs(DropDuplicates([i \in 1..Len(records) |->
                                [ds |-> records[i].timestamp, y |-> records[i].close]]))

(***************************************************************************)
(* Probability and confidence (basis points).                              *)
(***************************************************************************)
\* Division rounding toward zero.
Quot(a, b) == IF a >= 0 THEN a \div b ELSE -((-a) \div b)

\* A probability that is not brought back into [0.02, 0.98].
compute_probability_unclamped(predicted, current_price, sentiment_factor, volume_momentum) ==
    IF current_price <= 0 THEN 5000
    ELSE 5000 + Max(Min(Quot((predicted - current_price) * 7500, current_price), 4500), -4500)
              + Quot(sentiment_factor * 15, 100) + Quot(volume_momentum * 10, 100)

\* _compute_probability
compute_probability(predicted, current_price, sentiment_factor, volume_momentum) ==
    IF current_price <= 0 THEN 5000
    ELSE LET delta == Quot((predicted - current_price) * 7500, current_price)
             base == 5000 + Max(Min(delta, 4500), -4500)
             with_sentiment == base + Quot(sentiment_factor * 15, 100)
             with_volume == with_sentiment + Quot(volume_momentum * 10, 100)
         IN  Max(Min(with_volume, 9800), 200)

\* A score that is not raised to 0.55.
confidence_score_no_floor(lower, upper, baseline) ==
    IF baseline <= 0 THEN 6000
    ELSE Min(10000 - Min(Max((Abs(upper - lower) * 10000) \div baseline, 0), 10000), 9500)

\* _confidence_score
confidence_score(lower, upper, baseline) ==
    IF baseline <= 0 THEN 6000
    ELSE LET ratio == (Abs(upper - lower) * 10000) \div baseline
             score == 10000 - Min(Max(ratio, 0), 10000)
         IN  Max(5500, Min(score, 9500))

(***************************************************************************)
(* Feature extractors (basis points in [-10000, 10000]).                   *)
(***************************************************************************)
\* A factor that measures how far the score is from neutral, on either side.
get_sentiment_factor_magnitude(proxy) ==
    IF proxy.kind = "score"
    THEN Max(Min(Abs(proxy.score - 50) * 200, 10000), -10000)
    ELSE 0

\* _get_sentiment_factor; proxy is what get_proxy_score did:
\* "raises", "none" (no data or no score), or a score on the 0..100 scale.
get_sentiment_factor(proxy) ==
    IF proxy.kind = "score"
    THEN Max(Min((proxy.score - 50) * 200, 10000), -10000)
    ELSE 0

\* (a / b) * 10000 toward zero, a hundredth at a time: the factors stay within 32 bits.
BasisPoints(a, b) ==
    LET hundredths == Quot(a * 100, b)
    IN  hundredths * 100 + Quot((a * 100 - hundredths * b) * 100, b)

\* A momentum that compares the oldest six volumes with the average.
get_volume_momentum_oldest(records) ==
    LET recent == SubSeq(records, Max(1, Len(records) - 23), Len(records))
        volumes == SelectSeq([i \in 1..Len(recent) |-> recent[i].volume],
                             LAMBDA v : v > 0)
        n == Len(volumes)
        first6 == SubSeq(volumes, 1, Min(6, n))
    IN  IF n < 10 THEN 0
        ELSE Max(Min(BasisPoints((SeqSum(first6) * n - SeqSum(volumes) * Len(first6)) * 2,
                                 SeqSum(volumes) * Len(first6)), 10000), -10000)

\* _get_volume_momentum
get_volume_momentum(records) ==
    LET recent == SubSeq(records, Max(1, Len(records) - 23), Len(records))
        volumes == SelectSeq([i \in 1..Len(recent) |-> recent[i].volume],
                             LAMBDA v : v > 0)
        n == Len(volumes)
        last6 == SubSeq(volumes, Max(1, n - 5), n)
    IN  IF n < 10 THEN 0
        ELSE LET total == SeqSum(volumes)
                 total6 == SeqSum(last6)
                 \* (recent_avg - historical_avg) / historical_avg * 2
                 ratio2 == BasisPoints((total6 * n - total * Len(last6)) * 2,
                                       total * Len(last6))
             IN  Max(Min(ratio2, 10000), -10000)

\* A correlation factor that knows the reference asset in upper case only.
get_market_correlation_factor_exact_case(symbol, btc_rows) ==
    IF symbol = "BTC" THEN 0
    ELSE IF Len(btc_rows) < 24 THEN 0
    ELSE IF btc_rows[Len(btc_rows) - 23].close = 0 THEN 0
    ELSE Quot(Max(Min(Quot((btc_rows[Len(btc_rows)].close
                                - btc_rows[Len(btc_rows) - 23].close) * 5 * 10000,
                           btc_rows[Len(btc_rows) - 23].close), 10000), -10000), 2)

\* _get_market_correlation_factor; btc_rows is the BTC table.  A first close of
\* 0 makes the division raise, which the function answers with 0.0.
get_market_correlation_factor(symbol, btc_rows) ==
    IF Upper(symbol) = "BTC" THEN 0
    ELSE IF Len(btc_rows) < 24 THEN 0
    ELSE LET first == btc_rows[Len(btc_rows) - 23].close
             final == btc_rows[Len(btc_rows)].close
         IN  IF first = 0 THEN 0
             ELSE Quot(Max(Min(Quot((final - first) * 5 * 10000, first), 10000), -10000), 2)

(***************************************************************************)
(* Redis keyspace and the cache layer (app/core/cache.py).                 *)
(* A call's faults name what fails during it: "redis_down" fails every     *)
(* Redis command, "redis_get", "redis_set", "redis_scan" fail that one.    *)
(***************************************************************************)
RedisFails(faults, command) == "redis_down" \in faults \/ command \in faults

\* Keys whose TTL has elapsed are gone.
Expire(rd, now) ==
    LET live == {k \in DOMAIN rd : rd[k].expires_at > now}
    IN  [k \in live |-> rd[k]]

StartsWith(key, prefix) ==
    Len(prefix) <= Len(key) /\ SubSeq(key, 1, Len(prefix)) = prefix

\* model_dump(): generated_at is a datetime.
model_dump(response) ==
    [response EXCEPT !.predictions =
        [i \in 1..Len(response.predictions) |->
            [response.predictions[i] EXCEPT
                !.generated_at = <<"datetime", response.predictions[i].generated_at>>]]]

\* _serialize: json.dumps with datetimes written by isoformat().
serialize(value) ==
    [value EXCEPT !.predictions =
        [i \in 1..Len(value.predictions) |->
            [value.predictions[i] EXCEPT
                !.generated_at = <<"str", value.predictions[i].generated_at[2]>>]]]

\* _deserialize: json.loads.
deserialize(payload) == payload

\* PredictionResponse(**payload): a datetime or an ISO string becomes a datetime.
parse_response(payload) ==
    [payload EXCEPT !.predictions =
        [i \in 1..Len(payload.predictions) |->
            [payload.predictions[i] EXCEPT
                !.generated_at = payload.predictions[i].generated_at[2]]]]

\* get_cached_value
get_cached_value(rd, key, faults) ==
    IF RedisFails(faults, "redis_get") THEN None
    ELSE IF key \notin DOMAIN rd THEN None
    ELSE Some(deserialize(rd[key].payload))

\* A SET that leaves an existing key as it is (SET ... NX).
set_cached_value_nx(rd, key, value, ttl, now, faults) ==
    IF RedisFails(faults, "redis_set") \/ key \in DOMAIN rd THEN rd
    ELSE [k \in DOMAIN rd \cup {key} |->
            IF k = key THEN [payload |-> serialize(value), expires_at |-> now + ttl]
            ELSE rd[k]]

\* set_cached_value
set_cached_value(rd, key, value, ttl, now, faults) ==
    IF RedisFails(faults, "redis_set") THEN rd
    ELSE [k \in DOMAIN rd \cup {key} |->
            IF k = key THEN [payload |-> serialize(value), expires_at |-> now + ttl]
            ELSE rd[k]]

\* A cache_result that stores the value again when it serves it, renewing its TTL.
cache_result_renewing(rd, key, ttl, now, faults, loaded) ==
    IF get_cached_value(rd, key, faults) # None
    THEN [raised |-> FALSE, value |-> get_cached_value(rd, key, faults)[1],
          redis |-> set_cached_value(rd, key, get_cached_value(rd, key, faults)[1],
                                     ttl, now, faults),
          hit |-> TRUE, loader_calls |-> 0, stored |-> FALSE]
    ELSE IF loaded.raised
    THEN [raised |-> TRUE, value |-> None, redis |-> loaded.redis,
          hit |-> FALSE, loader_calls |-> 1, stored |-> FALSE]
    ELSE [raised |-> FALSE, value |-> loaded.value,
          redis |-> set_cached_value(loaded.redis, key, loaded.value, ttl, now, faults),
          hit |-> FALSE, loader_calls |-> 1,
          stored |-> ~RedisFails(faults, "redis_set")]

\* A cache_result that lets a failing GET reach the caller.
cache_result_unguarded(rd, key, ttl, now, faults, loaded) ==
    IF RedisFails(faults, "redis_get")
    THEN [raised |-> TRUE, value |-> None, redis |-> rd,
          hit |-> FALSE, loader_calls |-> 0, stored |-> FALSE]
    ELSE IF get_cached_value(rd, key, faults) # None
    THEN [raised |-> FALSE, value |-> get_cached_value(rd, key, faults)[1], redis |-> rd,
          hit |-> TRUE, loader_calls |-> 0, stored |-> FALSE]
    ELSE [raised |-> loaded.raised, value |-> loaded.value,
          redis |-> IF loaded.raised THEN loaded.redis
                    ELSE set_cached_value(loaded.redis, key, loaded.value, ttl, now, faults),
          hit |-> FALSE, loader_calls |-> 1,
          stored |-> ~loaded.raised /\ ~RedisFails(faults, "redis_set")]

\* A cache_result that returns what it loaded without storing it.
cache_result_no_store(rd, key, ttl, now, faults, loaded) ==
    IF get_cached_value(rd, key, faults) # None
    THEN [raised |-> FALSE, value |-> get_cached_value(rd, key, faults)[1], redis |-> rd,
          hit |-> TRUE, loader_calls |-> 0, stored |-> FALSE]
    ELSE [raised |-> loaded.raised, value |-> loaded.value, redis |-> loaded.redis,
          hit |-> FALSE, loader_calls |-> 1, stored |-> FALSE]

\* cache_result.  `loaded` is what calling the loader does: the value it returns
\* (or that it raised) and the Redis keyspace it leaves.
cache_result(rd, key, ttl, now, faults, loaded) ==
    LET cached == get_cached_value(rd, key, faults)
    IN  IF cached # None
        THEN [raised |-> FALSE, value |-> cached[1], redis |-> rd,
              hit |-> TRUE, loader_calls |-> 0, stored |-> FALSE]
        ELSE IF loaded.raised
        THEN [raised |-> TRUE, value |-> None, redis |-> loaded.redis,
              hit |-> FALSE, loader_calls |-> 1, stored |-> FALSE]
        ELSE [raised |-> FALSE, value |-> loaded.value,
              redis |-> set_cached_value(loaded.redis, key, loaded.value, ttl, now, faults),
              hit |-> FALSE, loader_calls |-> 1,
              stored |-> ~RedisFails(faults, "redis_set")]

\* An invalidation that deletes the key equal to the prefix and no other.
invalidate_exact(rd, prefix, faults) ==
    IF prefix = "" \/ RedisFails(faults, "redis_scan") THEN rd
    ELSE [k \in {j \in DOMAIN rd : j # prefix} |-> rd[k]]

\* invalidate_prefixes(prefix): SCAN prefix*, DELETE each key found.
invalidate_prefixes(rd, prefix, faults) ==
    IF prefix = "" \/ RedisFails(faults, "redis_scan") THEN rd
    ELSE [k \in {j \in DOMAIN rd : ~StartsWith(j, prefix)} |-> rd[k]]

\* An invalidation that deletes nothing.
invalidate_nothing(rd, symbol, faults) == rd

\* _invalidate_prediction_cache
invalidate_prediction_cache(rd, symbol, faults) ==
    invalidate_prefixes(rd, "predictions:" \o Upper(symbol) \o ":", faults)

\* _cache_key_for_predictions
cache_key_for_predictions(symbol, horizons, include_confidence, include_factors) ==
    LET horizon_key == IF horizons # <<>> THEN Join(SortedStrings(horizons)) ELSE "default"
    IN  "predictions:" \o Upper(symbol) \o ":" \o horizon_key \o ":"
            \o BoolDigit(include_confidence) \o ":" \o BoolDigit(include_factors)

(***************************************************************************)
(* Forecast engine.                                                        *)
(***************************************************************************)
\* _persist_prediction: the row db.add() makes pending.
persist_prediction(pass, symbol, horizon, generated_at, predicted, lower, upper, features, probability_up, score, model_version) ==
    [id |-> <<pass, horizon>>,
     symbol |-> symbol,
     prediction_time |-> generated_at,
     horizon_hours |-> horizon,
     predicted_price |-> predicted,
     confidence_lower |-> Some(lower),
     confidence_upper |-> Some(upper),
     confidence_score |-> Some(score),
     model_version |-> model_version,
     features_used |-> Some(features),
     accuracy_score |-> Some(probability_up)]

\* Series.mean(), to the whole unit below.
SeriesMean(ys) == SeqSum(ys) \div Len(ys)

\* Series.std() (sample standard deviation), to the whole unit below.
SeriesStd(ys) ==
    LET n == Len(ys)
        d == [i \in 1..n |-> ys[i] - ys[1]]
        sq == [i \in 1..n |-> d[i] * d[i]]
        total == SeqSum(d)
    IN  ISqrt((n * SeqSum(sq) - total * total) \div (n * (n - 1)))

\* A moving-average row that carries the tag of the trained model.
moving_average_row_trained_tag(pass, symbol, horizon, df, current_price, generated_at) ==
    LET window == Min(Len(df), Max(24, horizon * 3))
        window_series == [i \in 1..window |-> df[Len(df) - window + i].y]
        predicted == SeriesMean(window_series)
        std == IF SeriesStd(window_series) # 0 THEN SeriesStd(window_series)
               ELSE Max(current_price \div 50, 1)
    IN  persist_prediction(pass, symbol, horizon, generated_at, predicted,
                           predicted - std, predicted + std,
                           [moving_average |-> predicted, volatility |-> std],
                           compute_probability(predicted, current_price, 0, 0),
                           confidence_score(predicted - std, predicted + std, current_price),
                           MODEL_VERSION)

\* The row _generate_moving_average_predictions persists for one horizon.
moving_average_row(pass, symbol, horizon, df, current_price, generated_at) ==
    LET window == Min(Len(df), Max(24, horizon * 3))
        window_series == [i \in 1..window |-> df[Len(df) - window + i].y]
        predicted == SeriesMean(window_series)
        spread == SeriesStd(window_series)
        std == IF spread # 0 THEN spread ELSE Max(current_price \div 50, 1)
        lower == predicted - std
        upper == predicted + std
    IN  persist_prediction(pass, symbol, horizon, generated_at, predicted, lower, upper,
                           [moving_average |-> predicted, volatility |-> std],
                           compute_probability(predicted, current_price, 0, 0),
                           confidence_score(lower, upper, current_price),
                           FALLBACK_VERSION)

\* A moving-average pass that stops after the first horizon.
moving_average_first_only(pass, symbol, target_hours, df, current_price, generated_at) ==
    {moving_average_row(pass, symbol, target_hours[1], df, current_price, generated_at)}

\* _generate_moving_average_predictions: one row per target horizon.
generate_moving_average_predictions(pass, symbol, target_hours, df, current_price, generated_at) ==
    {moving_average_row(pass, symbol, target_hours[i], df, current_price, generated_at) :
        i \in 1..Len(target_hours)}

\* A forecast that holds the row of the farthest horizon and no other.
ForecastOffsetsFarthest(max_horizon) == {max_horizon}

\* forecast["horizon_hours"]: hourly rows from the last training timestamp,
\* make_future_dataframe(periods=max_horizon, freq="H", include_history=False).
ForecastOffsets(max_horizon) == 1..max_horizon

\* The row the trained-model loop persists for one horizon; fc is the forecast
\* Prophet produced (its drift from the current price and its half-width).
trained_row(pass, symbol, horizon, fc, current_price, generated_at, sentiment_factor, volume_momentum, market_correlation) ==
    LET predicted == current_price + fc.drift
        lower == predicted - fc.width
        upper == predicted + fc.width
    IN  persist_prediction(pass, symbol, horizon, generated_at, predicted, lower, upper,
                           [trend |-> predicted, weekly |-> 0, daily |-> 0,
                            sentiment |-> sentiment_factor,
                            volume_momentum |-> volume_momentum,
                            market_correlation |-> market_correlation],
                           compute_probability(predicted, current_price,
                                               sentiment_factor, volume_momentum),
                           confidence_score(lower, upper, current_price),
                           MODEL_VERSION)

\* What a pass persists (before commit), the path that produced it, and the
\* steps it came to that can fail.
PassRows(pass, symbol, target_hours, df, records, btc_rows, generated_at, simple, env) ==
    LET current_price == df[Len(df)].y
        path == IF simple THEN "bootstrap"
                ELSE IF "fit" \in env.faults THEN "fit_raised"
                ELSE IF "predict" \in env.faults THEN "predict_raised"
                ELSE "trained"
        max_horizon == SetMax(Range(target_hours))
        found == SelectSeq(target_hours, LAMBDA h : h \in ForecastOffsets(max_horizon))
    IN  [path |-> path,
         rows |-> IF path = "trained"
                  THEN {trained_row(pass, symbol, found[i], env.forecast, current_price,
                                    generated_at, get_sentiment_factor(env.proxy),
                                    get_volume_momentum(records),
                                    get_market_correlation_factor(symbol, btc_rows)) :
                           i \in 1..Len(found)}
                  ELSE generate_moving_average_predictions(
                           pass, symbol, target_hours, df, current_price, generated_at),
         reached |-> IF simple THEN {}
                     ELSE IF "fit" \in env.faults THEN {"fit"}
                     ELSE {"fit", "predict"}]

\* A commit that raises after its rows were written.
commit_partial(store, pending, faults) ==
    [raised |-> "commit" \in faults, predictions |-> store \cup pending]

\* A commit that overwrites the rows of the same symbol and horizon.
commit_replacing(store, pending, faults) ==
    [raised |-> "commit" \in faults,
     predictions |->
        {p \in store : \A q \in pending : q.symbol # p.symbol
                                              \/ q.horizon_hours # p.horizon_hours}
            \cup pending]

\* db.commit() of a pass: the pending rows become rows of the table, or the
\* commit raises and none of them does.
commit(store, pending, faults) ==
    IF "commit" \in faults THEN [raised |-> TRUE, predictions |-> store]
    ELSE [raised |-> FALSE, predictions |-> store \cup pending]

\* _generate_prophet_predictions.  Returns the tables and keyspace it leaves,
\* whether it raised, and what it did.  The steps, last to first:
\*   Committed  db.commit() was called; when it returned,
\*              _invalidate_prediction_cache(symbol) follows
\*   Persisted  the pass has made its rows pending
\*   Framed     the checks of len(records) and len(df)
\*   Queried    the market_data rows were read
generate_prophet_predictions(store, md, rd, pass, symbol_arg, target_hours, now, simple, env) ==
    LET symbol == Upper(symbol_arg)
        limit == Max(Max(Len(target_hours) * 24, MARKET_DATA_LOOKBACK_DAYS * 24), 200)
        Committed(fetched, made, done) ==
            [raised |-> done.raised, predictions |-> done.predictions,
             market_data |-> fetched,
             redis |-> IF done.raised THEN rd
                       ELSE invalidate_prediction_cache(rd, symbol, env.faults),
             path |-> made.path, rows |-> made.rows,
             committed |-> ~done.raised,
             invalidated |-> ~done.raised /\ ~RedisFails(env.faults, "redis_scan"),
             reached |-> made.reached
                             \cup (IF done.raised THEN {"commit"}
                                   ELSE {"commit", "redis_scan", "redis_down"})]
        Persisted(fetched, made) ==
            Committed(fetched, made, commit(store, made.rows, env.faults))
        Framed(fetched, records, df) ==
            IF Len(records) < MIN_HISTORY_POINTS \/ Len(df) < MIN_HISTORY_POINTS
            THEN [raised |-> FALSE, predictions |-> store, market_data |-> fetched,
                  redis |-> rd, path |-> "insufficient", rows |-> {},
                  committed |-> FALSE, invalidated |-> FALSE, reached |-> {}]
            ELSE Persisted(fetched,
                           PassRows(pass, symbol, target_hours, df, records,
                                    fetched["BTC"], now, simple, env))
        Queried(history_rows, records) ==
            Framed([md EXCEPT ![symbol] = history_rows], records,
                   prepare_training_frame(records))
        Fetched(history_rows) == Queried(history_rows, RecentRows(history_rows, limit))
    IN  Fetched(fetch_market_history(md[symbol], env.candles, env.external))

(***************************************************************************)
(* Latest price (app/services/market_data.py).                             *)
(***************************************************************************)
\* hash(symbol): fixed for the life of the process.
SymbolHash(symbol) == Len(symbol) * 7919

\* _fallback_price
fallback_price(symbol) == 20000 + (SymbolHash(symbol) % 5000)

\* _ensure_recent_price: when the newest row is older than 30 minutes (or there
\* is none) and a price source answers (quote), its price is stored as a row.
ensure_recent_price(rows, now, quote) ==
    IF rows # <<>> /\ rows[Len(rows)].timestamp >= now - 30 THEN rows
    ELSE IF quote = None THEN rows
    ELSE store_market_rows(rows, <<[timestamp |-> now, close |-> quote[1],
                                    volume |-> 0]>>)

\* get_latest_price(...).price
latest_price(rows, symbol) ==
    IF rows = <<>> THEN fallback_price(symbol) ELSE rows[Len(rows)].close

(***************************************************************************)
(* get_predictions and get_cached_predictions.                             *)
(***************************************************************************)
NoPass == [path |-> "none", rows |-> {}, committed |-> FALSE, invalidated |-> FALSE,
           reached |-> {}]

\* get_predictions.  Returns whether it raised, the response, the tables and the
\* keyspace it leaves, and what it did on the way.  The steps, last to first:
\*   Built      the response, from the records grouped by horizon
\*   Read       the records the response is built from were read
\*   Decided    _needs_refresh has answered
\*   Queried    the first query of the predictions table was made
get_predictions(store, md, rd, pass, symbol_arg, horizons, include_confidence, include_factors, now, simple, env) ==
    LET symbol == Upper(symbol_arg)
        target_hours == TargetHours(horizons)
        Built(refresh, gen, grouped, price_rows) ==
            LET found == SelectSeq(target_hours, LAMBDA h : h \in DOMAIN grouped)
                ordered_predictions ==
                    [i \in 1..Len(found) |->
                        build_prediction_item(grouped[found[i]], include_confidence,
                                              include_factors)]
                did == [refreshed |-> refresh, path |-> gen.path, rows |-> gen.rows,
                        committed |-> gen.committed, invalidated |-> gen.invalidated,
                        reached |-> gen.reached, predictions |-> gen.predictions,
                        redis |-> gen.redis]
            IN  IF gen.raised
                THEN [raised |-> TRUE, response |-> None,
                      market_data |-> gen.market_data, used |-> {}] @@ did
                ELSE IF DOMAIN grouped = {} \/ ordered_predictions = <<>>
                THEN [raised |-> FALSE,
                      response |-> Some(fallback_prediction_response(
                                            symbol, horizons, include_confidence,
                                            include_factors, now)),
                      market_data |-> gen.market_data, used |-> {}] @@ did
                ELSE [raised |-> FALSE,
                      response |-> Some([symbol |-> symbol,
                                         current_price |-> latest_price(price_rows, symbol),
                                         predictions |-> ordered_predictions]),
                      market_data |-> [gen.market_data EXCEPT ![symbol] = price_rows],
                      used |-> {grouped[h].id : h \in Range(found)}] @@ did
        Read(refresh, gen, records) ==
            Built(refresh, gen, group_by_horizon(records),
                  ensure_recent_price(gen.market_data[symbol], now, env.quote))
        Decided(before, refresh) ==
            IF refresh
            THEN LET Generated(gen) ==
                         Read(TRUE, gen,
                              QueryPredictions(gen.predictions, symbol, target_hours))
                 IN  Generated(generate_prophet_predictions(
                                   store, md, rd, pass, symbol, target_hours, now,
                                   simple, env))
            ELSE Read(FALSE,
                      [raised |-> FALSE, predictions |-> store, market_data |-> md,
                       redis |-> rd] @@ NoPass,
                      before)
        Queried(before) == Decided(before, needs_refresh(before, target_hours, now))
    IN  Queried(QueryPredictions(store, symbol, target_hours))

\* get_cached_predictions.  Loaded: what cache_result did, given what calling
\* the loader (get_predictions(...).model_dump()) does.
get_cached_predictions(store, md, rd, pass, symbol, horizons, include_confidence, include_factors, now, simple, env) ==
    LET cache_key == cache_key_for_predictions(symbol, horizons, include_confidence,
                                               include_factors)
        Outcome(got, result) ==
            [raised |-> result.raised,
             response |-> IF result.raised THEN None
                          ELSE Some(parse_response(result.value)),
             redis |-> result.redis, cache_key |-> cache_key, hit |-> result.hit,
             loader_calls |-> result.loader_calls, stored |-> result.stored]
            @@ (IF result.loader_calls = 0
                THEN [predictions |-> store, market_data |-> md, used |-> {},
                      refreshed |-> FALSE, path |-> NoPass.path, rows |-> NoPass.rows,
                      committed |-> FALSE, invalidated |-> FALSE,
                      reached |-> {"redis_get", "redis_down"}]
                ELSE [predictions |-> got.predictions, market_data |-> got.market_data,
                      used |-> got.used, refreshed |-> got.refreshed, path |-> got.path,
                      rows |-> got.rows, committed |-> got.committed,
                      invalidated |-> got.invalidated,
                      reached |-> got.reached \cup {"redis_get", "redis_down"}
                                      \cup (IF got.raised THEN {} ELSE {"redis_set"})])
        Loaded(got) ==
            Outcome(got,
                     cache_result(rd, cache_key, CacheTtlMinutes, now, env.faults,
                                  [raised |-> got.raised,
                                   value |-> IF got.raised THEN None
                                             ELSE model_dump(got.response[1]),
                                   redis |-> got.redis]))
    IN  Loaded(get_predictions(store, md, rd, pass, symbol, horizons, include_confidence,
                               include_factors, now, simple, env))

\* get_batch_predictions: get_cached_predictions for each symbol in turn, with
\* include_factors off; a call that raises ends the batch.  `sofar` is what the
\* calls made so far returned and left.
RECURSIVE get_batch_predictions(_, _, _, _, _, _, _, _)
get_batch_predictions(sofar, pass, symbols, horizons, include_confidence, now, simple, env) ==
    IF symbols = <<>> \/ sofar.raised THEN sofar
    ELSE LET Appended(got) ==
                 get_batch_predictions(
                     [raised |-> got.raised,
                      responses |-> IF got.raised THEN sofar.responses
                                    ELSE Append(sofar.responses, got.response[1]),
                      predictions |-> got.predictions,
                      market_data |-> got.market_data,
                      redis |-> got.redis,
                      reached |-> sofar.reached \cup got.reached],
                     pass, Tail(symbols), horizons, include_confidence, now, simple, env)
         IN  Appended(get_cached_predictions(
                          sofar.predictions, sofar.market_data, sofar.redis, pass,
                          Head(symbols), horizons, include_confidence, FALSE, now,
                          simple, env))

(***************************************************************************)
(* Inputs.                                                                 *)
(***************************************************************************)
StoreSymbols == {"BTC", "ETH"}

\* What callers ask for: symbol (its case is the caller's), horizons (None when
\* the caller passes none), include_confidence, include_factors.
Requests ==
    {[symbol |-> "BTC", horizons |-> <<"1h", "4h">>,
      include_confidence |-> TRUE, include_factors |-> FALSE],
     [symbol |-> "btc", horizons |-> <<"4h", "1h">>,
      include_confidence |-> TRUE, include_factors |-> FALSE],
     [symbol |-> "BTC", horizons |-> <<"1h", "1d">>,
      include_confidence |-> TRUE, include_factors |-> TRUE],
     [symbol |-> "BTC", horizons |-> None,
      include_confidence |-> FALSE, include_factors |-> FALSE],
     [symbol |-> "ETH", horizons |-> <<"1h", "4h">>,
      include_confidence |-> TRUE, include_factors |-> FALSE]}

\* What callers of the batch endpoint post: symbols and horizons.
BatchRequests ==
    {[symbols |-> <<"BTC", "ETH">>, horizons |-> <<"1h", "4h">>],
     [symbols |-> <<"eth", "BTC">>, horizons |-> <<"1h", "1d">>],
     [symbols |-> <<"BTC", "btc">>, horizons |-> <<>>]}

\* The hourly candles the upstream returns at `now`: n candles ending with the
\* current hour, closes rising by 5 an hour, volumes by 1.
HourlyCandles(now, n) ==
    [i \in 1..n |->
        LET hour == (now \div 60) - n + i
        IN  [timestamp |-> hour * 60,
             close |-> 20000 + 5 * (hour + n),
             volume |-> 1000 + (hour + n)]]

CandleBatches(now) == {HourlyCandles(now, MIN_HISTORY_POINTS)}

\* What Prophet forecasts: drift from the current price, half-width of the interval.
Forecasts == {[drift |-> 120, width |-> 300]}

\* What get_proxy_score does.
ProxyOutcomes == {[kind |-> "score", score |-> 75]}

\* What the price sources answer to _ensure_recent_price.
Quotes == {None}

\* What can fail during a call.
FaultKinds == {"fit", "predict", "commit", "redis_get", "redis_set", "redis_scan",
               "redis_down"}

FaultSets == {F \in SUBSET FaultKinds : Cardinality(F) <= MaxFaults}

\* What a call meets: what the upstreams answer and what fails.
Envs(now, faults) ==
    [candles : CandleBatches(now), forecast : Forecasts, proxy : ProxyOutcomes,
     quote : Quotes, external : {ENABLE_EXTERNAL_MARKET_DATA}, faults : faults]

\* The failures a call can meet, given the steps it comes to when nothing
\* fails: the first thing that fails is one of those steps.
FaultsMet(reached) ==
    IF faulty_calls < MaxFaultyCalls
    THEN {F \in FaultSets : F = {} \/ F \cap reached # {}}
    ELSE {{}}

(***************************************************************************)
(* State machine.                                                          *)
(***************************************************************************)
\* scripts/seed.py: seed_predictions and seed_market_data, run at time 0.
\* seed_predictions draws predicted_price in [20000, 21000), confidence_lower in
\* [19500, 19700) and confidence_upper in [20500, 20700): a draw of the price
\* below the upper bound drawn, and one above it.
SeedDraws ==
    {[predicted |-> 20500, lower |-> 19600, upper |-> 20600],
     [predicted |-> 20900, lower |-> 19600, upper |-> 20600]}

SeedPredictions(draw) ==
    {[id |-> <<0, h>>, symbol |-> sym, prediction_time |-> 0, horizon_hours |-> h,
      predicted_price |-> draw.predicted, confidence_lower |-> Some(draw.lower),
      confidence_upper |-> Some(draw.upper), confidence_score |-> Some(8000),
      model_version |-> "simulated",
      features_used |-> Some([momentum |-> 3000, volume |-> 2000]),
      accuracy_score |-> None] : sym \in StoreSymbols, h \in {1, 4, 24}}

SeedMarketData ==
    [i \in 1..10 |->
        [timestamp |-> 0 - 15 * (10 - i),
         close |-> 20050 + 10 * (10 - i), volume |-> 1000 + 50 * (10 - i)]]

NoCall == [op |-> "none"]

\* The threads of the server that serve requests at the same time.
Workers == {"w1", "w2"}

\* A worker that serves no request.
Idle ==
    [pc |-> "idle", request |-> None, cache_key |-> "", hit |-> FALSE,
     refreshed |-> FALSE, generated_at |-> None, rows |-> {}, commit_seq |-> 0,
     value |-> None, set_seq |-> 0, returned |-> None]

\* A deployment: seeded by scripts/seed.py or empty, with the settings as the
\* defaults give them (external market data off, simple bootstrap off) or with
\* external market data on and either bootstrap mode.
Init ==
    /\ clock = 0
    /\ calls = 0
    /\ faulty_calls = 0
    /\ redis = <<>>
    /\ \E seeded \in BOOLEAN :
          /\ predictions \in (IF seeded THEN {SeedPredictions(draw) : draw \in SeedDraws}
                             ELSE {{}})
          /\ market_data = [sym \in StoreSymbols |->
                               IF seeded THEN SeedMarketData ELSE <<>>]
          /\ ENABLE_EXTERNAL_MARKET_DATA \in (IF seeded THEN {FALSE} ELSE BOOLEAN)
    /\ SIMPLE_BOOTSTRAP \in (IF ENABLE_EXTERNAL_MARKET_DATA THEN BOOLEAN ELSE {FALSE})
    /\ last = NoCall
    /\ history = <<>>
    /\ inflight = [w \in Workers |-> Idle]

\* What a call leaves behind: the tables, the keyspace, the record of the call.
\* A failure the call never came to (env.faults outside r.reached) is no input
\* of the call.
Finish(op, request, now, env, r) ==
    /\ env.faults \subseteq r.reached
    /\ clock' = now
    /\ calls' = calls + 1
    /\ faulty_calls' = IF env.faults = {} THEN faulty_calls ELSE faulty_calls + 1
    /\ predictions' = r.predictions
    /\ market_data' = r.market_data
    /\ redis' = r.redis
    /\ last' = [op |-> op, request |-> request, at |-> now, faults |-> env.faults,
                forecast |-> env.forecast, proxy |-> env.proxy, quote |-> env.quote,
                raised |-> r.raised, response |-> r.response, refreshed |-> r.refreshed,
                path |-> r.path, rows |-> r.rows, used |-> r.used,
                committed |-> r.committed, invalidated |-> r.invalidated,
                cache_key |-> r.cache_key, hit |-> r.hit,
                loader_calls |-> r.loader_calls, stored |-> r.stored]
    /\ history' = Append(history,
                         [op |-> op, request |-> request, at |-> now,
                          raised |-> r.raised, refreshed |-> r.refreshed,
                          appended |-> {p.id : p \in r.predictions \ predictions},
                          used |-> r.used, cache_key |-> r.cache_key,
                          hit |-> r.hit, stored |-> r.stored,
                          items |-> IF r.raised THEN <<>>
                                    ELSE r.response[1].predictions])
    /\ UNCHANGED <<SIMPLE_BOOTSTRAP, ENABLE_EXTERNAL_MARKET_DATA, inflight>>

\* A direct call of get_predictions (websocket feed, ingestion task).
GetPredictions ==
    /\ calls < MaxCalls
    /\ \E request \in Requests, dt \in ClockSteps :
        LET now == clock + dt
            call(env) ==
                get_predictions(predictions, market_data, Expire(redis, now),
                                calls + 1, request.symbol, request.horizons,
                                request.include_confidence, request.include_factors,
                                now, SIMPLE_BOOTSTRAP, env)
                @@ [cache_key |-> "", hit |-> FALSE, loader_calls |-> 0,
                    stored |-> FALSE]
        IN  \E quiet \in Envs(now, {{}}) :
            \E undisturbed \in {call(quiet)} :
            \E env \in Envs(now, FaultsMet(undisturbed.reached)) :
            \E r \in {IF env = quiet THEN undisturbed ELSE call(env)} :
                Finish("get_predictions", request, now, env, r)

\* A call of get_cached_predictions (the prediction endpoints, the dashboard).
GetCachedPredictions ==
    /\ calls < MaxCalls
    /\ \E request \in Requests, dt \in ClockSteps :
        LET now == clock + dt
            call(env) ==
                get_cached_predictions(predictions, market_data, Expire(redis, now),
                                       calls + 1, request.symbol, request.horizons,
                                       request.include_confidence,
                                       request.include_factors, now,
                                       SIMPLE_BOOTSTRAP, env)
        IN  \E quiet \in Envs(now, {{}}) :
            \E undisturbed \in {call(quiet)} :
            \E env \in Envs(now, FaultsMet(undisturbed.reached)) :
            \E r \in {IF env = quiet THEN undisturbed ELSE call(env)} :
                Finish("get_cached_predictions", request, now, env, r)

Next == GetPredictions

NextCached == GetCachedPredictions

\* Direct calls of get_predictions.
Spec == Init /\ [][Next]_vars

\* Calls through the read-through cache.
SpecCached == Init /\ [][NextCached]_vars

\* A call of get_batch_predictions (the batch endpoint).
GetBatchPredictions ==
    /\ calls < MaxCalls
    /\ \E request \in BatchRequests, dt \in ClockSteps :
        LET now == clock + dt
            call(env) ==
                get_batch_predictions(
                    [raised |-> FALSE, responses |-> <<>>, predictions |-> predictions,
                     market_data |-> market_data, redis |-> Expire(redis, now),
                     reached |-> {}],
                    calls + 1, request.symbols, request.horizons, TRUE, now,
                    SIMPLE_BOOTSTRAP, env)
        IN  \E quiet \in Envs(now, {{}}) :
            \E undisturbed \in {call(quiet)} :
            \E env \in Envs(now, FaultsMet(undisturbed.reached)) :
            \E r \in {IF env = quiet THEN undisturbed ELSE call(env)} :
                /\ env.faults \subseteq r.reached
                /\ clock' = now
                /\ calls' = calls + 1
                /\ faulty_calls' = IF env.faults = {} THEN faulty_calls
                                   ELSE faulty_calls + 1
                /\ predictions' = r.predictions
                /\ market_data' = r.market_data
                /\ redis' = r.redis
                /\ last' = [op |-> "get_batch_predictions", request |-> request,
                            at |-> now, faults |-> env.faults,
                            forecast |-> env.forecast, proxy |-> env.proxy,
                            quote |-> env.quote, raised |-> r.raised,
                            responses |-> r.responses]
                /\ history' = Append(history,
                                     [op |-> "get_batch_predictions",
                                      request |-> request, at |-> now,
                                      raised |-> r.raised,
                                      appended |-> {q.id : q \in r.predictions
                                                                   \ predictions}])
                /\ UNCHANGED <<SIMPLE_BOOTSTRAP, ENABLE_EXTERNAL_MARKET_DATA, inflight>>

\* The three entry points as the callers of one deployment use them.
DirectCall == calls < MaxMixedCalls /\ GetPredictions

CachedCall == calls < MaxMixedCalls /\ GetCachedPredictions

BatchCall == calls < MaxMixedCalls /\ GetBatchPredictions

NextPipeline == DirectCall \/ CachedCall \/ BatchCall

\* Every entry point of the pipeline, in any order.
SpecPipeline == Init /\ [][NextPipeline]_vars

(***************************************************************************)
(* The Forecast Engine on its own: one generation pass, or one call of one *)
(* of its functions, on inputs drawn from bounded sets.                    *)
(***************************************************************************)
\* A batch in which the upstream repeats the timestamp of its last candle.
RepeatedCandle(candles) ==
    Append(candles, [candles[Len(candles)] EXCEPT !.close = @ + 7])

\* What the upstream returns to fetch_market_history: nothing, one candle too
\* few, just enough, just enough rows of which two share a timestamp, more.
PassCandles(now) ==
    {<<>>, HourlyCandles(now, MIN_HISTORY_POINTS - 1),
     HourlyCandles(now, MIN_HISTORY_POINTS),
     RepeatedCandle(HourlyCandles(now, MIN_HISTORY_POINTS - 1)),
     HourlyCandles(now, MIN_HISTORY_POINTS + 12)}

\* What Prophet forecasts: a rise with an interval, a fall with an interval of
\* no width, a rise with an interval wider than the price.
PassForecasts ==
    {[drift |-> 120, width |-> 300], [drift |-> -400, width |-> 0],
     [drift |-> 2500, width |-> 25000]}

\* What get_proxy_score does: raise, return nothing, return a score.
PassProxies ==
    {[kind |-> "raises"], [kind |-> "none"],
     [kind |-> "score", score |-> 25], [kind |-> "score", score |-> 75]}

\* target_hours as get_predictions passes them.
PassTargets == {<<1, 4>>, <<24>>, <<1, 4, 24, 24 * 7>>}

\* What fails during a pass.
PassFaults == {{}, {"fit"}, {"predict"}, {"commit"}, {"redis_scan"}}

PassEnvs(now) ==
    [candles : PassCandles(now), forecast : PassForecasts, proxy : PassProxies,
     quote : Quotes, external : {ENABLE_EXTERNAL_MARKET_DATA}, faults : PassFaults]

\* One call of _generate_prophet_predictions(db, symbol, target_hours).
GenerationPass ==
    /\ calls < MaxPasses
    /\ \E symbol \in StoreSymbols, target_hours \in PassTargets, dt \in ClockSteps :
        LET now == clock + dt
        IN  \E env \in PassEnvs(now) :
            \E gen \in {generate_prophet_predictions(
                            predictions, market_data, Expire(redis, now), calls + 1,
                            symbol, target_hours, now, SIMPLE_BOOTSTRAP, env)} :
                /\ env.faults \subseteq gen.reached
                /\ clock' = now
                /\ calls' = calls + 1
                /\ faulty_calls' = IF env.faults = {} THEN faulty_calls
                                   ELSE faulty_calls + 1
                /\ predictions' = gen.predictions
                /\ market_data' = gen.market_data
                /\ redis' = gen.redis
                /\ last' = [op |-> "_generate_prophet_predictions", symbol |-> symbol,
                            target_hours |-> target_hours, at |-> now,
                            faults |-> env.faults, forecast |-> env.forecast,
                            proxy |-> env.proxy, raised |-> gen.raised,
                            path |-> gen.path, rows |-> gen.rows,
                            committed |-> gen.committed,
                            invalidated |-> gen.invalidated,
                            reached |-> gen.reached]
                /\ UNCHANGED <<SIMPLE_BOOTSTRAP, ENABLE_EXTERNAL_MARKET_DATA, history, inflight>>

\* What a call of one function of the engine leaves as it was.
engine_frame == <<clock, predictions, market_data, redis, SIMPLE_BOOTSTRAP,
                  ENABLE_EXTERNAL_MARKET_DATA, faulty_calls, history, inflight>>

\* Prices a forecast and the market can give, and the factors of the extractors.
PredictedPrices == {0, 10000, 19000, 19900, 20000, 20100, 21000, 30000, 40000}

CurrentPrices == {-5, 0, 1, 20000}

FactorValues == {-10000, -5000, 0, 5000, 10000}

\* One call of _compute_probability.
ComputeProbability ==
    \E predicted \in PredictedPrices, current_price \in CurrentPrices :
    \E sentiment_factor \in FactorValues, volume_momentum \in FactorValues :
        /\ calls < MaxPasses
        /\ calls' = calls + 1
        /\ last' = [op |-> "_compute_probability",
                    args |-> [predicted |-> predicted, current_price |-> current_price,
                              sentiment_factor |-> sentiment_factor,
                              volume_momentum |-> volume_momentum],
                    result |-> compute_probability(predicted, current_price,
                                                   sentiment_factor, volume_momentum)]
        /\ UNCHANGED engine_frame

\* Bounds of an interval, in either order, and baselines.
IntervalBounds == {0, 19000, 19700, 20000, 20300, 21000, 45000}

Baselines == {-5, 0, 1, 20000, 100000}

\* One call of _confidence_score.
ConfidenceScore ==
    \E lower \in IntervalBounds, upper \in IntervalBounds, baseline \in Baselines :
        /\ calls < MaxPasses
        /\ calls' = calls + 1
        /\ last' = [op |-> "_confidence_score",
                    args |-> [lower |-> lower, upper |-> upper, baseline |-> baseline],
                    result |-> confidence_score(lower, upper, baseline)]
        /\ UNCHANGED engine_frame

\* What get_proxy_score can do: be missing (its import failed), raise, give
\* nothing, give a score.
SentimentInputs ==
    {[kind |-> "unavailable"], [kind |-> "raises"], [kind |-> "none"]}
        \cup {[kind |-> "score", score |-> n] : n \in {0, 25, 50, 75, 100, 130}}

\* One call of _get_sentiment_factor.
SentimentFactor ==
    \E proxy \in SentimentInputs :
        /\ calls < MaxPasses
        /\ calls' = calls + 1
        /\ last' = [op |-> "_get_sentiment_factor", args |-> proxy,
                    result |-> get_sentiment_factor(proxy)]
        /\ UNCHANGED engine_frame

\* Hourly records with the volumes given, oldest first.
VolumeRecords(volumes) ==
    [i \in 1..Len(volumes) |->
        [timestamp |-> 60 * (i - Len(volumes)), close |-> 100, volume |-> volumes[i]]]

\* Series of 24 volumes: steady slopes up and down, flat, a late surge, an
\* early collapse, a curve, a spike in the middle; a series of 9; series with
\* 9 and with 10 positive volumes among the last 24 records.
VolumeSeries ==
    {[i \in 1..24 |-> 1000 + slope * (i - 1)] : slope \in {0, 1, 50}}
        \cup {[i \in 1..24 |-> 2000 - slope * (i - 1)] : slope \in {1, 50}}
        \cup {[i \in 1..24 |-> IF i = 24 THEN 2900 ELSE i],
              [i \in 1..24 |-> IF i = 1 THEN 2900 ELSE 25 - i],
              [i \in 1..24 |-> 1 + i * i],
              [i \in 1..24 |-> IF i = 1 THEN 1 ELSE 2000 + i],
              [i \in 1..24 |-> IF i = 12 THEN 2900 ELSE 1000],
              [i \in 1..9 |-> 1000 + 50 * i],
              [i \in 1..24 |-> IF i <= 15 THEN 0 ELSE 1000 + 50 * i],
              [i \in 1..24 |-> IF i <= 14 THEN 0 ELSE 1000 + 50 * i],
              [i \in 1..30 |-> IF i <= 10 THEN 2000 ELSE 0]}

\* One call of _get_volume_momentum.
VolumeMomentum ==
    \E volumes \in VolumeSeries :
        /\ calls < MaxPasses
        /\ calls' = calls + 1
        /\ last' = [op |-> "_get_volume_momentum", args |-> volumes,
                    result |-> get_volume_momentum(VolumeRecords(volumes))]
        /\ UNCHANGED engine_frame

\* BTC rows with the closes given, oldest first.
CloseRecords(closes) ==
    [i \in 1..Len(closes) |->
        [timestamp |-> 60 * (i - Len(closes)), close |-> closes[i], volume |-> 1000]]

\* Closes of the BTC table: 23 rows, 24 rising, falling, doubling, flat, a
\* first close of 0, and 30 rows of which the last 24 fall.
CloseSeries ==
    {[i \in 1..23 |-> 20000 + 10 * i],
     [i \in 1..24 |-> 20000 + 10 * i],
     [i \in 1..24 |-> 20000 - 10 * i],
     [i \in 1..24 |-> 10000 + 400 * i],
     [i \in 1..24 |-> 20000],
     [i \in 1..24 |-> 100 * (i - 1)],
     [i \in 1..30 |-> IF i <= 6 THEN 100 * i ELSE 20000 - 100 * i]}

\* One call of _get_market_correlation_factor.
MarketCorrelation ==
    \E symbol \in {"BTC", "btc", "Btc", "ETH", "eth"}, closes \in CloseSeries :
        /\ calls < MaxPasses
        /\ calls' = calls + 1
        /\ last' = [op |-> "_get_market_correlation_factor",
                    args |-> [symbol |-> symbol, closes |-> closes],
                    result |-> get_market_correlation_factor(symbol, CloseRecords(closes))]
        /\ UNCHANGED engine_frame

\* Request shapes the endpoints can hand to get_cached_predictions: the symbol
\* and every horizon string are the caller's, the flags are booleans.
KeyShapes ==
    [symbol : {"BTC", "btc", "ETH"},
     horizons : {None, <<"1h", "4h">>, <<"4h", "1h">>, <<"1h">>, <<"1h,4h">>, <<"default">>},
     include_confidence : BOOLEAN,
     include_factors : BOOLEAN]

\* _cache_key_for_predictions for the requests of two callers.
CacheKey ==
    \E a \in KeyShapes, b \in KeyShapes :
        /\ calls < MaxPasses
        /\ calls' = calls + 1
        /\ last' = [op |-> "_cache_key_for_predictions",
                    args |-> <<a, b>>,
                    result |-> <<cache_key_for_predictions(a.symbol, a.horizons,
                                     a.include_confidence, a.include_factors),
                                 cache_key_for_predictions(b.symbol, b.horizons,
                                     b.include_confidence, b.include_factors)>>]
        /\ UNCHANGED engine_frame

NextEngine ==
    \/ CacheKey
    \/ MarketCorrelation
    \/ GenerationPass
    \/ ComputeProbability
    \/ ConfidenceScore
    \/ SentimentFactor
    \/ VolumeMomentum

\* The Forecast Engine applied to drawn inputs.
SpecEngine == Init /\ [][NextEngine]_vars

(***************************************************************************)
(* Requests served at the same time.  Each worker serves one request with  *)
(* get_cached_predictions, in its own session; a step is what the worker   *)
(* does up to its next statement on Redis or on the predictions table.     *)
(* Nothing fails.  The clock moves when a pass takes generated_at.         *)
(***************************************************************************)
\* What the workers are asked for.
ConcurrentRequests ==
    {[symbol |-> "BTC", horizons |-> <<"1h", "4h">>,
      include_confidence |-> TRUE, include_factors |-> FALSE],
     [symbol |-> "btc", horizons |-> <<"4h", "1h">>,
      include_confidence |-> TRUE, include_factors |-> FALSE],
     [symbol |-> "BTC", horizons |-> <<"1h", "1d">>,
      include_confidence |-> TRUE, include_factors |-> TRUE]}

\* Minutes that pass before a pass takes generated_at.
PassDelays == {1, 50}

\* get_predictions from `grouped = _group_by_horizon(records)` on: the response,
\* and the market_data rows of the symbol as get_latest_price leaves them.
build_response(records, rows, request, now, quote) ==
    LET symbol == Upper(request.symbol)
        target_hours == TargetHours(request.horizons)
        Built(grouped, found) ==
            IF DOMAIN grouped = {} \/ found = <<>>
            THEN [response |-> fallback_prediction_response(
                                   symbol, request.horizons, request.include_confidence,
                                   request.include_factors, now),
                  rows |-> rows]
            ELSE LET Priced(price_rows) ==
                         [response |->
                             [symbol |-> symbol,
                              current_price |-> latest_price(price_rows, symbol),
                              predictions |->
                                 [i \in 1..Len(found) |->
                                     build_prediction_item(grouped[found[i]],
                                                           request.include_confidence,
                                                           request.include_factors)]],
                          rows |-> price_rows]
                 IN  Priced(ensure_recent_price(rows, now, quote))
        Grouped(grouped) ==
            Built(grouped, SelectSeq(target_hours, LAMBDA h : h \in DOMAIN grouped))
    IN  Grouped(group_by_horizon(records))

\* The workers that have done a step of kind `field` (a commit, a SET).
Sequenced(field) == {v \in Workers : inflight[v][field] > 0}

\* cache_result: cached = get_cached_value(key).
CacheGet(w) ==
    /\ inflight[w].pc = "idle"
    /\ \E request \in ConcurrentRequests :
       \E key \in {cache_key_for_predictions(request.symbol, request.horizons,
                                               request.include_confidence,
                                               request.include_factors)} :
       \E cached \in {get_cached_value(Expire(redis, clock), key, {})} :
          inflight' = [inflight EXCEPT ![w] =
                          IF cached # None
                          THEN [@ EXCEPT !.pc = "done", !.request = Some(request),
                                         !.cache_key = key, !.hit = TRUE,
                                         !.value = cached,
                                         !.returned = Some(parse_response(cached[1]))]
                          ELSE [@ EXCEPT !.pc = "miss", !.request = Some(request),
                                         !.cache_key = key]]
    /\ UNCHANGED <<clock, predictions, market_data, redis, SIMPLE_BOOTSTRAP,
                   ENABLE_EXTERNAL_MARKET_DATA, calls, faulty_calls, last, history>>

\* The loader, get_predictions: the first query and _needs_refresh; when no
\* refresh is needed, the response is built from the records read.
QueryRecords(w) ==
    /\ inflight[w].pc = "miss"
    /\ \E request \in {inflight[w].request[1]} :
       \E records \in {QueryPredictions(predictions, Upper(request.symbol),
                                         TargetHours(request.horizons))} :
          IF needs_refresh(records, TargetHours(request.horizons), clock)
          THEN /\ inflight' = [inflight EXCEPT ![w].pc = "stale", ![w].refreshed = TRUE]
               /\ UNCHANGED market_data
          ELSE \E built \in {build_response(records, market_data[Upper(request.symbol)],
                                              request, clock, None)} :
               /\ inflight' = [inflight EXCEPT ![w].pc = "loaded",
                                                ![w].value = Some(model_dump(built.response))]
               /\ market_data' = [market_data EXCEPT ![Upper(request.symbol)] = built.rows]
    /\ UNCHANGED <<clock, predictions, redis, SIMPLE_BOOTSTRAP,
                   ENABLE_EXTERNAL_MARKET_DATA, calls, faulty_calls, last, history>>

\* _generate_prophet_predictions up to its commit: the history is fetched and
\* read, generated_at is taken, the rows are added to the session.
StartPass(w) ==
    /\ inflight[w].pc = "stale"
    /\ \E request \in {inflight[w].request[1]}, dt \in PassDelays :
       \E env \in Envs(clock + dt, {{}}) :
       \E gen \in {generate_prophet_predictions(
                        predictions, market_data, redis, calls + 1, request.symbol,
                        TargetHours(request.horizons), clock + dt, SIMPLE_BOOTSTRAP,
                        env)} :
          /\ clock' = clock + dt
          /\ calls' = calls + 1
          /\ market_data' = gen.market_data
          /\ inflight' = [inflight EXCEPT
                              ![w].pc = IF gen.rows = {} THEN "persisted" ELSE "pending",
                              ![w].generated_at = Some(clock + dt),
                              ![w].rows = gen.rows]
    /\ UNCHANGED <<predictions, redis, SIMPLE_BOOTSTRAP, ENABLE_EXTERNAL_MARKET_DATA,
                   faulty_calls, last, history>>

\* db.commit() of the pass.
CommitPass(w) ==
    /\ inflight[w].pc = "pending"
    /\ predictions' = commit(predictions, inflight[w].rows, {}).predictions
    /\ inflight' = [inflight EXCEPT
                        ![w].pc = "committed",
                        ![w].commit_seq = Cardinality(Sequenced("commit_seq")) + 1]
    /\ UNCHANGED <<clock, market_data, redis, SIMPLE_BOOTSTRAP,
                   ENABLE_EXTERNAL_MARKET_DATA, calls, faulty_calls, last, history>>

\* _invalidate_prediction_cache(symbol), after the commit.
InvalidateCache(w) ==
    /\ inflight[w].pc = "committed"
    /\ redis' = invalidate_prediction_cache(Expire(redis, clock),
                                            Upper(inflight[w].request[1].symbol), {})
    /\ inflight' = [inflight EXCEPT ![w].pc = "persisted"]
    /\ UNCHANGED <<clock, predictions, market_data, SIMPLE_BOOTSTRAP,
                   ENABLE_EXTERNAL_MARKET_DATA, calls, faulty_calls, last, history>>

\* get_predictions after the pass: the second query, and the response.
Requery(w) ==
    /\ inflight[w].pc = "persisted"
    /\ \E request \in {inflight[w].request[1]} :
       \E records \in {QueryPredictions(predictions, Upper(request.symbol),
                                         TargetHours(request.horizons))} :
       \E built \in {build_response(records, market_data[Upper(request.symbol)],
                                      request, clock, None)} :
          /\ inflight' = [inflight EXCEPT ![w].pc = "loaded",
                                           ![w].value = Some(model_dump(built.response))]
          /\ market_data' = [market_data EXCEPT ![Upper(request.symbol)] = built.rows]
    /\ UNCHANGED <<clock, predictions, redis, SIMPLE_BOOTSTRAP,
                   ENABLE_EXTERNAL_MARKET_DATA, calls, faulty_calls, last, history>>

\* cache_result: set_cached_value(key, value, ttl); return value.
CacheSet(w) ==
    /\ inflight[w].pc = "loaded"
    /\ redis' = set_cached_value(Expire(redis, clock), inflight[w].cache_key,
                                 inflight[w].value[1], CacheTtlMinutes, clock, {})
    /\ inflight' = [inflight EXCEPT
                        ![w].pc = "done",
                        ![w].set_seq = Cardinality(Sequenced("set_seq")) + 1,
                        ![w].returned = Some(parse_response(inflight[w].value[1]))]
    /\ UNCHANGED <<clock, predictions, market_data, SIMPLE_BOOTSTRAP,
                   ENABLE_EXTERNAL_MARKET_DATA, calls, faulty_calls, last, history>>

NextConcurrent ==
    \E w \in Workers :
        \/ CacheGet(w)
        \/ QueryRecords(w)
        \/ StartPass(w)
        \/ CommitPass(w)
        \/ InvalidateCache(w)
        \/ Requery(w)
        \/ CacheSet(w)

\* Two requests served at the same time.
SpecConcurrent == Init /\ [][NextConcurrent]_vars

(***************************************************************************)
(* Properties.  What a property says of a call, it says of the call `last` *)
(* records; `predictions`, `market_data` and `redis` are then the tables   *)
(* and the keyspace that call left.                                        *)
(***************************************************************************)
\* The symbol and the horizons (in hours, first occurrences, caller's order)
\* a request is about.
SymbolOf(request) == Upper(request.symbol)
HoursOf(request) == TargetHours(request.horizons)

\* The stored records of a symbol and a horizon, and the newest of them.
RecordsOf(store, symbol, hours) ==
    {p \in store : p.symbol = symbol /\ p.horizon_hours = hours}
NewestOf(store, symbol, hours) ==
    CHOOSE p \in RecordsOf(store, symbol, hours) :
        \A q \in RecordsOf(store, symbol, hours) : q.prediction_time <= p.prediction_time

\* The horizons of a request that have a stored record, in the caller's order.
StoredHours(store, request) ==
    SelectSeq(HoursOf(request), LAMBDA h : RecordsOf(store, SymbolOf(request), h) # {})

Called == last.op # "none"
Returned == Called /\ ~last.raised
Items == last.response[1].predictions

\* C1.  The staleness policy decides REFRESH exactly when some requested
\* horizon has no stored record for the symbol (in particular when the symbol
\* has no record at all), or the newest generation time among the latest
\* records of the requested horizons is more than 45 minutes before now; in
\* every other case it decides REUSE.
C1_RefreshExpected(store, request, now) ==
    \/ \E h \in Range(HoursOf(request)) : RecordsOf(store, SymbolOf(request), h) = {}
    \/ \A h \in Range(HoursOf(request)) :
          now - NewestOf(store, SymbolOf(request), h).prediction_time > 45
C1_StalenessPolicy ==
    [][last'.refreshed = C1_RefreshExpected(predictions, last'.request, clock')]_vars

\* C1 witnesses: records exactly 45 minutes old are reused.
C1_Witness ==
    /\ Called /\ ~last.refreshed
    /\ \E p \in predictions : p.id \in last.used /\ last.at - p.prediction_time = 45
    /\ \A p \in predictions : p.id \in last.used => last.at - p.prediction_time >= 45

\* Call j repeats call i: get_predictions for the same symbol with the same
\* arguments, at most 45 minutes after call i persisted a record for every
\* horizon asked for.
C2_Repeats(i, j) ==
    /\ i < j
    /\ history[i].op = "get_predictions" /\ history[j].op = "get_predictions"
    /\ SymbolOf(history[i].request) = SymbolOf(history[j].request)
    /\ history[i].request.horizons = history[j].request.horizons
    /\ history[i].request.include_confidence = history[j].request.include_confidence
    /\ history[i].request.include_factors = history[j].request.include_factors
    /\ {id[2] : id \in history[i].appended} = Range(HoursOf(history[i].request))
    /\ history[j].at - history[i].at <= 45

\* No call between i and j appended a record for the symbol and a horizon of
\* call i.
C2_Undisturbed(i, j) ==
    \A k \in (i + 1)..(j - 1) :
        SymbolOf(history[k].request) = SymbolOf(history[i].request)
            => \A id \in history[k].appended : id[2] \notin Range(HoursOf(history[i].request))

\* C2 (as amended).  Idempotent reuse: after a get_predictions call persisted
\* records for every horizon asked for, every further sequential call for the
\* same symbol and horizons within 45 minutes takes the REUSE path and appends
\* no record; and, provided no other call appended a record for the symbol and
\* one of those horizons in between, it returns items built from exactly the
\* same records as the first call.
C2_IdempotentReuse ==
    \A i, j \in 1..Len(history) :
        C2_Repeats(i, j) =>
            /\ ~history[j].raised /\ ~history[j].refreshed /\ history[j].appended = {}
            /\ C2_Undisturbed(i, j) =>
                  /\ history[j].used = history[i].used
                  /\ history[j].items = history[i].items

\* C2 as stated: the same, whatever was called in between.
C2_AsStated ==
    \A i, j \in 1..Len(history) :
        C2_Repeats(i, j) =>
            /\ ~history[j].raised /\ ~history[j].refreshed /\ history[j].appended = {}
            /\ history[j].used = history[i].used
            /\ history[j].items = history[i].items

\* C2 witness: a repeated call served from the records the first call persisted.
C2_Witness ==
    \E i, j \in 1..Len(history) :
        /\ C2_Repeats(i, j) /\ C2_Undisturbed(i, j)
        /\ history[j].used = history[i].appended
        /\ history[j].items = history[i].items /\ history[j].items # <<>>

\* An item built from a stored record.
BuiltFrom(item, p) ==
    /\ item.horizon = format_horizon(p.horizon_hours)
    /\ item.generated_at = p.prediction_time
    /\ item.predicted_price = p.predicted_price
    /\ item.model_version = p.model_version
    /\ last.request.include_confidence /\ p.confidence_lower # None
           => /\ item.confidence_interval # None
              /\ item.confidence_interval[1].lower = p.confidence_lower[1]
              /\ item.confidence_interval[1].upper = p.confidence_upper[1]

\* The strings the simulated response answers.
AskedFor(request) == IF request.horizons = None THEN <<"24h">> ELSE request.horizons

\* An item of the simulated response for the horizon string asked for.
Simulated(item, asked) ==
    /\ item.horizon = asked
    /\ item.model_version = "simulated"
    /\ item.probability = Some([up |-> 55, down |-> 45])
    /\ item.generated_at = last.at

\* C3.  get_predictions never hard-fails for lack of data and never returns an
\* empty predictions list: when no record exists for any requested horizon
\* after the refresh attempt it returns the simulated response, one item per
\* requested horizon string (a single "24h" item when none was requested),
\* every item with model_version "simulated" and probability 0.55 / 0.45; and a
\* response never mixes simulated items with items built from stored records.
C3_NeverEmpty ==
    Called =>
        /\ last.raised => "commit" \in last.faults /\ last.path \notin {"none", "insufficient"}
        /\ Returned => Items # <<>>
        /\ Returned /\ StoredHours(predictions, last.request) = <<>> =>
              /\ Len(Items) = Len(AskedFor(last.request))
              /\ \A i \in 1..Len(Items) : Simulated(Items[i], AskedFor(last.request)[i])
              /\ last.used = {}
        /\ Returned =>
              \/ /\ last.used = {}
                 /\ \A i \in 1..Len(Items) : Simulated(Items[i], AskedFor(last.request)[i])
              \/ /\ Cardinality(last.used) = Len(Items)
                 /\ \A i \in 1..Len(Items) :
                       \E p \in predictions : p.id \in last.used /\ BuiltFrom(Items[i], p)

\* C3 witness: a symbol with zero history and no stored record, no horizons
\* requested: the single simulated "24h" item.
C3_Witness ==
    /\ Returned /\ last.op = "get_predictions"
    /\ market_data[SymbolOf(last.request)] = <<>>
    /\ last.request.horizons = None
    /\ Len(Items) = 1 /\ Simulated(Items[1], "24h")

\* The bars of a symbol carry at least 48 distinct timestamps.
EnoughBars(symbol) ==
    Cardinality({market_data[symbol][i].timestamp :
                    i \in 1..Len(market_data[symbol])}) >= 48

\* C4.  With at least 48 bars of distinct timestamps for the symbol, no stored
\* prediction before the call, simple-bootstrap mode on and
\* include_confidence = True, get_predictions (its commit succeeding) returns
\* exactly one item per distinct requested horizon after mapping the strings
\* to hours, each with a confidence interval and a probability, each with
\* model_version "prophet-1.1.5" or "prophet-ma-fallback".
C4_Given ==
    /\ Called /\ last.op = "get_predictions"
    /\ SIMPLE_BOOTSTRAP /\ last.request.include_confidence
    /\ EnoughBars(SymbolOf(last.request))
    /\ \A p \in predictions : p.symbol = SymbolOf(last.request) => p.id[1] = calls
    /\ "commit" \notin last.faults
C4_BootstrapItems ==
    C4_Given =>
        /\ Returned
        /\ Len(Items) = Len(HoursOf(last.request))
        /\ \A i \in 1..Len(Items) :
              /\ Items[i].horizon = format_horizon(HoursOf(last.request)[i])
              /\ Items[i].confidence_interval # None
              /\ Items[i].probability # None
              /\ Items[i].model_version \in {"prophet-1.1.5", "prophet-ma-fallback"}

\* C4 witness: ["1h", "4h"] answered with two items.
C4_Witness ==
    /\ C4_Given /\ last.request.horizons = <<"1h", "4h">>
    /\ Len(Items) = 2 /\ Items[1].horizon = "1h" /\ Items[2].horizon = "4h"

\* C5.  When at least one requested horizon has a stored record,
\* get_predictions returns one item per requested horizon that has a record,
\* in the order in which the caller listed the horizons, each built from the
\* record with the greatest generated_at for that symbol and horizon; horizons
\* without a record are omitted without an error.
C5_LatestPerHorizon ==
    Returned /\ StoredHours(predictions, last.request) # <<>> =>
        LET found == StoredHours(predictions, last.request)
        IN  /\ Len(Items) = Len(found)
            /\ \A i \in 1..Len(found) :
                  LET p == NewestOf(predictions, SymbolOf(last.request), found[i])
                  IN  BuiltFrom(Items[i], p) /\ p.id \in last.used

\* C5 witness: some requested horizons have a record and some have none.
C5_Witness ==
    /\ Returned /\ last.op = "get_predictions"
    /\ StoredHours(predictions, last.request) # <<>>
    /\ Len(StoredHours(predictions, last.request)) < Len(HoursOf(last.request))
    /\ Len(Items) = Len(StoredHours(predictions, last.request))

\* The labels of the items of a response, and the labels of a request in the
\* caller's order (horizon strings mapped to hours and back).
Labels(items) == [i \in 1..Len(items) |-> items[i].horizon]
LabelsOf(request) ==
    [i \in 1..Len(HoursOf(request)) |-> format_horizon(HoursOf(request)[i])]

\* C6.  get_cached_predictions returns the items in the caller's requested
\* horizon order, also when the response is served from an entry an earlier
\* request with the same horizons in another order put in the cache.
C6_CallerOrder ==
    Returned /\ last.op = "get_cached_predictions" =>
        \/ Labels(Items) = SelectSeq(LabelsOf(last.request),
                                     LAMBDA l : l \in Range(Labels(Items)))
        \/ Labels(Items) = AskedFor(last.request)

\* What fails in Redis.
RedisFaultKinds == {"redis_get", "redis_set", "redis_scan", "redis_down"}

\* The entries of a keyspace whose TTL has not elapsed.
Unexpired(rd, now) ==
    [k \in {j \in DOMAIN rd : rd[j].expires_at > now} |-> rd[k]]

\* What the last call met, its failures replaced by `faults`.
EnvOf(call, faults) ==
    CHOOSE e \in Envs(call.at, {faults}) :
        e.forecast = call.forecast /\ e.proxy = call.proxy /\ e.quote = call.quote

\* C7.  cache_result(key, ttl, loader), Redis answering: when an unexpired
\* entry exists for key it returns that entry's value without invoking the
\* loader and without changing the cache; otherwise it invokes the loader
\* exactly once and (the loader returning) stores the result under key with
\* the TTL and returns it; an entry is never returned once its TTL has elapsed.
C7_Step ==
    LET call == last'
        key == call.cache_key
    IN  call.op = "get_cached_predictions" /\ call.faults \cap RedisFaultKinds = {} =>
            IF key \in DOMAIN redis /\ redis[key].expires_at > clock'
            THEN /\ call.hit /\ call.loader_calls = 0 /\ ~call.raised
                 /\ call.response = Some(parse_response(deserialize(redis[key].payload)))
                 /\ redis' = Unexpired(redis, clock')
                 /\ predictions' = predictions /\ market_data' = market_data
            ELSE \A loader \in {get_predictions(
                                    predictions, market_data, Unexpired(redis, clock'),
                                    calls + 1, call.request.symbol, call.request.horizons,
                                    call.request.include_confidence,
                                    call.request.include_factors, clock',
                                    SIMPLE_BOOTSTRAP, EnvOf(call, call.faults))} :
                 /\ ~call.hit /\ call.loader_calls = 1
                 /\ call.raised = loader.raised
                 /\ ~call.raised =>
                       /\ call.response = loader.response
                       /\ key \in DOMAIN redis'
                       /\ redis'[key].expires_at = clock' + 60
                       /\ parse_response(deserialize(redis'[key].payload))
                              = loader.response[1]
C7_ReadThrough == [][C7_Step]_vars

\* C7 witness: a call answered from an unexpired entry, the loader not invoked.
C7_Witness ==
    /\ Called /\ last.op = "get_cached_predictions"
    /\ last.hit /\ last.loader_calls = 0 /\ last.faults = {}
    /\ last.cache_key \in DOMAIN redis /\ redis[last.cache_key].expires_at > last.at

\* C8.  While Redis is down or fails on a GET, SETEX, SCAN or DELETE, every
\* cache_result call behaves as a miss and returns the loader's value,
\* invalidation is a no-op, no cache error reaches the caller, and the
\* response and the Prediction Store are what they would be with an empty
\* working cache.
C8_Step ==
    LET call == last'
        others == call.faults \ RedisFaultKinds
    IN  call.op = "get_cached_predictions" /\ call.faults \cap RedisFaultKinds # {} =>
            \A working \in {get_cached_predictions(
                                predictions, market_data, <<>>, calls + 1,
                                call.request.symbol, call.request.horizons,
                                call.request.include_confidence,
                                call.request.include_factors, clock',
                                SIMPLE_BOOTSTRAP, EnvOf(call, others))} :
            /\ ~call.hit /\ call.loader_calls = 1
            /\ call.raised = working.raised
            /\ call.response = working.response
            /\ predictions' = working.predictions
            /\ market_data' = working.market_data
            /\ call.faults \cap {"redis_scan", "redis_down"} # {} =>
                  \A k \in DOMAIN Unexpired(redis, clock') :
                      k \in DOMAIN redis' /\ (k # call.cache_key => redis'[k] = redis[k])
            /\ "redis_down" \in call.faults => redis' = Unexpired(redis, clock')
C8_CacheFailureIsMiss == [][C8_Step]_vars

\* C8 witness: Redis down while an unexpired entry for the key exists; the call
\* is answered by the loader and the entry is left as it was.
C8_Witness ==
    /\ Returned /\ last.op = "get_cached_predictions"
    /\ "redis_down" \in last.faults
    /\ ~last.hit /\ last.loader_calls = 1 /\ last.committed
    /\ last.cache_key \in DOMAIN redis /\ redis[last.cache_key].expires_at < last.at + 60

\* C9.  When committing the records of a generation pass fails, the failure
\* propagates out of the generation step, get_predictions and
\* get_cached_predictions: no response is returned, no cache entry is
\* invalidated or stored, and no record of the failed pass is in the store
\* for later staleness checks.
C9_Step ==
    /\ "commit" \in last'.faults =>
          /\ last'.raised /\ last'.response = None
          /\ ~last'.committed /\ ~last'.invalidated /\ ~last'.stored
          /\ predictions' = predictions
          /\ redis' = Unexpired(redis, clock')
    /\ \A k \in 1..Len(history') :
          history'[k].raised => \A p \in predictions' : p.id[1] # k
C9_CommitFailurePropagates == [][C9_Step]_vars

\* C9 witness: a commit failed during a cached call while an entry of the
\* symbol was in the cache; the entry is still there.
C9_Witness ==
    /\ Called /\ last.op = "get_cached_predictions"
    /\ "commit" \in last.faults /\ last.raised /\ last.rows # {}
    /\ \E k \in DOMAIN redis : StartsWith(k, "predictions:" \o SymbolOf(last.request) \o ":")

\* C10.  When model fitting or forecast generation raises, the generation pass
\* does not propagate the exception: it persists one record tagged
\* "prophet-ma-fallback" for every requested horizon, commits, invalidates the
\* symbol's cache entries and returns normally.
C10_Given ==
    /\ Called
    /\ last.faults \cap {"fit", "predict"} # {}
    /\ "commit" \notin last.faults
C10_FitFailureFallsBack ==
    C10_Given =>
        /\ ~last.raised
        /\ last.path \in {"fit_raised", "predict_raised"}
        /\ last.committed /\ last.rows \subseteq predictions
        /\ Cardinality(last.rows) = Len(HoursOf(last.request))
        /\ {p.horizon_hours : p \in last.rows} = Range(HoursOf(last.request))
        /\ \A p \in last.rows :
              /\ p.model_version = "prophet-ma-fallback"
              /\ p.symbol = SymbolOf(last.request)
              /\ p.prediction_time = last.at
        /\ last.faults \cap {"redis_scan", "redis_down"} = {} =>
              /\ last.invalidated
              /\ \A k \in DOMAIN redis :
                    StartsWith(k, "predictions:" \o SymbolOf(last.request) \o ":")
                        => k = last.cache_key /\ redis[k].expires_at = last.at + 60

\* C10 witness: fitting raised during a call made while another entry of the
\* symbol was in the cache; the fallback records are stored and that entry is
\* gone.
C10_Witness ==
    /\ C10_Given /\ ~last.raised /\ last.rows # {}
    /\ \E i \in 1..(Len(history) - 1) :
          /\ history[i].stored
          /\ SymbolOf(history[i].request) = SymbolOf(last.request)
          /\ history[i].cache_key # last.cache_key
          /\ last.at - history[i].at < 60
          /\ history[i].cache_key \notin DOMAIN redis

\* The market_data rows a generation pass for `symbol` read, as the table it
\* left holds them, and how many different timestamps they carry.
HistoryPoints(md, symbol) == Len(md[symbol])
DistinctPoints(md, symbol) ==
    Cardinality({md[symbol][i].timestamp : i \in 1..Len(md[symbol])})

\* C11.  A generation pass persists no record exactly when it has fewer than
\* 48 history points, counted as rows or as rows of different timestamps; it
\* then returns without raising, leaves the Prediction Store as it was, commits
\* nothing and invalidates no cache entry.
C11_Step ==
    last'.op = "_generate_prophet_predictions" /\ calls' = calls + 1 =>
        \A few \in {HistoryPoints(market_data', last'.symbol) < 48
                      \/ DistinctPoints(market_data', last'.symbol) < 48} :
            /\ (last'.rows = {}) <=> few
            /\ few => /\ ~last'.raised
                      /\ ~last'.committed
                      /\ ~last'.invalidated
                      /\ predictions' = predictions
                      /\ redis' = Unexpired(redis, clock')

C11_InsufficientHistory == [][C11_Step]_vars

\* A pass that read 48 rows of which two share a timestamp, and persisted nothing.
C11_Witness ==
    /\ last.op = "_generate_prophet_predictions"
    /\ HistoryPoints(market_data, last.symbol) = 48
    /\ DistinctPoints(market_data, last.symbol) = 47
    /\ last.rows = {}
    /\ ~last.raised

\* C12.  The Prediction Store is append-only under the pipeline: a call of
\* get_predictions, get_cached_predictions or get_batch_predictions (and the
\* generation passes they run) leaves every record that was stored as it was,
\* and the record the pipeline reads as the latest of a symbol and a horizon
\* is one with the greatest generated_at.
C12_Step ==
    /\ predictions \subseteq predictions'
    /\ \A symbol \in StoreSymbols, hours \in Range(AllHorizonHours) :
          RecordsOf(predictions', symbol, hours) # {} =>
              \A latest \in {group_by_horizon(
                                  QueryPredictions(predictions', symbol, <<hours>>))[hours]} :
                  \A q \in RecordsOf(predictions', symbol, hours) :
                      q.prediction_time <= latest.prediction_time

C12_AppendOnly == [][C12_Step]_vars

\* A batch call that ran a pass for a symbol and a horizon that already had a
\* record: the store holds the older record and the newer one.
C12_Witness ==
    /\ last.op = "get_batch_predictions"
    /\ ~last.raised
    /\ \E p, q \in predictions :
          /\ p.symbol = q.symbol
          /\ p.horizon_hours = q.horizon_hours
          /\ p.prediction_time < q.prediction_time
          /\ q.prediction_time = clock

\* The entries of a keyspace whose key does not start with `prefix`.
OutsidePrefix(rd, prefix) ==
    [k \in {j \in DOMAIN rd : ~StartsWith(j, prefix)} |-> rd[k]]

\* C13.  A call whose generation pass committed records for symbol S, Redis
\* answering, leaves no entry under "predictions:S:" that was there before, for
\* whatever horizons and flags it was stored (the only entry under the prefix
\* is the one get_cached_predictions stores after the pass), and leaves the
\* entries of every other symbol as they were; a pass that did not commit
\* deletes nothing.
C13_Step ==
    last' # last /\ last'.op \in {"get_predictions", "get_cached_predictions"} =>
        \A prefix \in {"predictions:" \o Upper(last'.request.symbol) \o ":"} :
        \A before \in {Unexpired(redis, clock')} :
            /\ last'.committed /\ last'.faults \cap RedisFaultKinds = {} =>
                  /\ \A k \in DOMAIN redis' :
                        StartsWith(k, prefix) =>
                            /\ last'.op = "get_cached_predictions"
                            /\ k = last'.cache_key
                            /\ redis'[k].expires_at = clock' + CacheTtlMinutes
                  /\ OutsidePrefix(redis', prefix) = OutsidePrefix(before, prefix)
            /\ ~last'.committed =>
                  /\ last'.op = "get_predictions" => redis' = before
                  /\ \A k \in DOMAIN before :
                        k # last'.cache_key => k \in DOMAIN redis' /\ redis'[k] = before[k]
            /\ last'.invalidated => last'.committed

C13_Invalidation == [][C13_Step]_vars

\* A direct call ran a pass for a symbol while the cache held a response of that
\* symbol and one of another symbol: the first is gone, the second is there.
C13_Witness ==
    /\ last.op = "get_predictions"
    /\ last.committed
    /\ last.faults = {}
    /\ Len(history) = 2
    /\ history[1].op = "get_batch_predictions"
    /\ ~history[1].raised
    /\ \A k \in DOMAIN redis : ~StartsWith(k, "predictions:" \o Upper(last.request.symbol) \o ":")
    /\ DOMAIN redis # {}

\* Two workers that both missed on one key and have both returned.
BothMissed(w, v) ==
    /\ w # v
    /\ inflight[w].pc = "done" /\ inflight[v].pc = "done"
    /\ ~inflight[w].hit /\ ~inflight[v].hit
    /\ inflight[w].cache_key = inflight[v].cache_key

\* C14.  cache_result has no single flight: of two workers that both missed on
\* one key, each has called its loader and stored what it loaded, each returns
\* what its own loader returned, and the entry left under the key is the one
\* of the later SET.
C14_NoSingleFlight ==
    \A w, v \in Workers :
        BothMissed(w, v) =>
            /\ inflight[w].value # None
            /\ inflight[w].set_seq > 0
            /\ inflight[w].returned = Some(parse_response(inflight[w].value[1]))
            /\ inflight[w].set_seq > inflight[v].set_seq =>
                  /\ inflight[w].cache_key \in DOMAIN redis
                  /\ redis[inflight[w].cache_key].payload = serialize(inflight[w].value[1])

\* Both missed on one key, loaded different values, and the entry left is the
\* later one's and not the earlier one's.
C14_Witness ==
    \E w, v \in Workers :
        /\ BothMissed(w, v)
        /\ inflight[w].set_seq > inflight[v].set_seq
        /\ inflight[w].value # inflight[v].value
        /\ inflight[w].returned # inflight[v].returned
        /\ redis[inflight[w].cache_key].payload = serialize(inflight[w].value[1])
        /\ redis[inflight[w].cache_key].payload # serialize(inflight[v].value[1])

\* Every record written by a pass or by the seed: the committed ones and the
\* ones the workers hold.
Written == predictions \cup UNION {inflight[v].rows : v \in Workers}

\* C15.  Workers serving requests for one symbol may each run a generation
\* pass and each append its records; whatever the interleaving, a read of the
\* predictions table made by get_predictions when every pass started has
\* committed gives, for each horizon asked for that has records, the item of
\* a record with the greatest generated_at among all the records written.
C15_Step ==
    \A w \in Workers :
        /\ inflight[w].pc \in {"miss", "persisted"}
        /\ inflight'[w].pc = "loaded"
        /\ \A v \in Workers : inflight[v].pc # "pending"
        => \A request \in {inflight[w].request[1]} :
           \A items \in {parse_response(inflight'[w].value[1]).predictions} :
           \A hours \in Range(TargetHours(request.horizons)) :
               RecordsOf(Written, Upper(request.symbol), hours) # {} =>
                   \E r \in RecordsOf(Written, Upper(request.symbol), hours) :
                       /\ \A q \in RecordsOf(Written, Upper(request.symbol), hours) :
                             q.prediction_time <= r.prediction_time
                       /\ \E i \in 1..Len(items) :
                             items[i] = build_prediction_item(r, request.include_confidence,
                                                              request.include_factors)

C15_LatestUnderRaces == [][C15_Step]_vars

\* Two workers each ran a pass for one symbol; the pass with the older
\* generated_at committed after the other; the worker of the older pass then
\* read, and returns the records of the newer pass.
C15_Witness ==
    \E w, v \in Workers :
        /\ inflight[w].rows # {} /\ inflight[v].rows # {}
        /\ inflight[w].generated_at[1] < inflight[v].generated_at[1]
        /\ inflight[w].commit_seq > inflight[v].commit_seq
        /\ inflight[v].commit_seq > 0
        /\ inflight[w].pc = "loaded"
        /\ \E i \in 1..Len(inflight[w].value[1].predictions) :
              parse_response(inflight[w].value[1]).predictions[i].generated_at
                  = inflight[v].generated_at[1]

\* A probability strictly between the bounds 0.02 and 0.98.
Inside(p) == 200 < p /\ p < 9800

\* C16.  With current_price > 0 and both factors in [-1, 1],
\* _compute_probability returns a value in [0.02, 0.98]; with the other
\* arguments fixed the value does not decrease when predicted - current_price
\* grows, nor when sentiment_factor or volume_momentum grows, and it grows with
\* either factor while it lies strictly between the bounds.
C16_ProbabilityBounds ==
    last.op = "_compute_probability" /\ last.args.current_price > 0 =>
        \A a \in {last.args} :
            /\ 200 <= last.result /\ last.result <= 9800
            /\ \A predicted \in PredictedPrices :
                  predicted - a.current_price >= a.predicted - a.current_price =>
                      compute_probability(predicted, a.current_price, a.sentiment_factor,
                                          a.volume_momentum) >= last.result
            /\ \A factor \in FactorValues :
                 \A higher \in {compute_probability(a.predicted, a.current_price, factor,
                                                     a.volume_momentum)} :
                  factor > a.sentiment_factor =>
                      /\ higher >= last.result
                      /\ Inside(higher) /\ Inside(last.result) => higher > last.result
            /\ \A factor \in FactorValues :
                 \A higher \in {compute_probability(a.predicted, a.current_price,
                                                     a.sentiment_factor, factor)} :
                  factor > a.volume_momentum =>
                      /\ higher >= last.result
                      /\ Inside(higher) /\ Inside(last.result) => higher > last.result

\* A call whose unclamped sum is above 0.98 (a forecast of twice the price,
\* both factors at 1) and returns 0.98.
C16_Witness ==
    /\ last.op = "_compute_probability"
    /\ last.args = [predicted |-> 40000, current_price |-> 20000,
                    sentiment_factor |-> 10000, volume_momentum |-> 10000]
    /\ last.result = 9800

Clamp(x, lo, hi) == IF x < lo THEN lo ELSE IF x > hi THEN hi ELSE x

\* C17.  _confidence_score(lower, upper, baseline) is in [0.55, 0.95]: it is
\* clamp(1 - clamp(|upper - lower| / baseline, 0, 1), 0.55, 0.95) when
\* baseline > 0 and 0.6 when baseline <= 0; and every record a generation
\* pass persists has its confidence_score in [0.55, 0.95].
C17_ConfidenceRange ==
    /\ last.op = "_confidence_score" =>
          /\ 5500 <= last.result /\ last.result <= 9500
          /\ last.args.baseline <= 0 => last.result = 6000
          /\ last.args.baseline > 0 =>
                last.result =
                    Clamp(10000 - Clamp((Abs(last.args.upper - last.args.lower) * 10000)
                                            \div last.args.baseline, 0, 10000),
                          5500, 9500)
    /\ last.op = "_generate_prophet_predictions" =>
          \A p \in last.rows :
              /\ p.confidence_score # None
              /\ 5500 <= p.confidence_score[1] /\ p.confidence_score[1] <= 9500

\* A pass whose forecast has an interval wider than the price persisted a
\* record scored 0.55, as _confidence_score scores that interval.
C17_Witness ==
    /\ last.op = "_generate_prophet_predictions"
    /\ last.committed
    /\ \E p \in last.rows :
          /\ p.confidence_score = Some(5500)
          /\ p.confidence_upper[1] - p.confidence_lower[1] > p.predicted_price
          /\ confidence_score(p.confidence_lower[1], p.confidence_upper[1],
                              p.predicted_price) = 5500

Score(n) == [kind |-> "score", score |-> n]

Missing == [kind |-> "none"]

\* C18.  The sentiment factor is ordered by the score around the neutral 50:
\* the factor of score 75 is greater than the factor of missing data, which is
\* 0.0, and the factor of missing data is greater than the factor of score 25.
C18_SentimentOrder ==
    last.op = "_get_sentiment_factor" =>
        /\ last.args.kind # "score" => last.result = 0
        /\ last.args = Score(75) =>
              /\ last.result > get_sentiment_factor(Missing)
              /\ last.result > get_sentiment_factor(Score(25))
        /\ last.args = Score(25) => last.result < get_sentiment_factor(Missing)
        /\ -10000 <= last.result /\ last.result <= 10000

\* C18 as the specification states it: the factor of score 75 is greater than
\* the factor of score 25, which is greater than the factor of missing data.
C18_AsStated ==
    last.op = "_get_sentiment_factor" =>
        /\ last.args = Score(75) => last.result > get_sentiment_factor(Score(25))
        /\ last.args = Score(25) => last.result > get_sentiment_factor(Missing)

\* The call with score 25: the factor is -0.5, below the factor of missing data.
C18_Witness ==
    /\ last.op = "_get_sentiment_factor"
    /\ last.args = Score(25)
    /\ last.result = -5000
    /\ get_sentiment_factor(Missing) = 0
    /\ get_sentiment_factor(Score(75)) = 5000

StrictlyIncreasing(xs) == \A i \in 1..(Len(xs) - 1) : xs[i] < xs[i + 1]

StrictlyDecreasing(xs) == \A i \in 1..(Len(xs) - 1) : xs[i] > xs[i + 1]

\* C19.  For a series of 24 positive volumes _get_volume_momentum returns a
\* value in [-1, 1], positive when the volumes are strictly increasing and
\* negative when they are strictly decreasing: the momentum of a strictly
\* increasing series is greater than that of any strictly decreasing one.
C19_VolumeMomentum ==
    /\ last.op = "_get_volume_momentum"
    /\ Len(last.args) = 24
    /\ \A i \in 1..24 : last.args[i] > 0
    => /\ -10000 <= last.result /\ last.result <= 10000
       /\ StrictlyIncreasing(last.args) =>
             /\ last.result > 0
             /\ \A other \in VolumeSeries :
                   Len(other) = 24 /\ StrictlyDecreasing(other) =>
                       last.result > get_volume_momentum(VolumeRecords(other))
       /\ StrictlyDecreasing(last.args) => last.result < 0

\* The call with the volumes 1000, 1050, ..., 2150: a positive momentum; the
\* volumes 2000, 1950, ..., 850 have a negative one.
C19_Witness ==
    /\ last.op = "_get_volume_momentum"
    /\ last.args = [i \in 1..24 |-> 1000 + 50 * (i - 1)]
    /\ last.result > 0
    /\ last.result < 10000
    /\ get_volume_momentum(VolumeRecords([i \in 1..24 |-> 2000 - 50 * (i - 1)])) < 0

\* C20.  Every record of the Prediction Store that has both bounds has
\* confidence_lower <= predicted_price <= confidence_upper.
C20_IntervalContainsPrediction ==
    \A p \in predictions :
        p.confidence_lower # None /\ p.confidence_upper # None =>
            /\ p.confidence_lower[1] <= p.predicted_price
            /\ p.predicted_price <= p.confidence_upper[1]

\* What C21 says of a call that refreshed: the pass appended one new record for
\* every horizon asked for, all generated at the time of the call, and the
\* call read each horizon's record from that pass.
C21_WholeBatch ==
    /\ {r.horizon_hours : r \in last'.rows} = Range(HoursOf(last'.request))
    /\ Cardinality(last'.rows) = Cardinality(Range(HoursOf(last'.request)))
    /\ \A r \in last'.rows : /\ r.prediction_time = clock'
                              /\ r.symbol = SymbolOf(last'.request)
                              /\ r \notin predictions
    /\ predictions' = predictions \cup last'.rows
    /\ last'.used = {r.id : r \in last'.rows}
    /\ \A h \in Range(HoursOf(last'.request)) :
          NewestOf(predictions', SymbolOf(last'.request), h) \in last'.rows

\* C21.  No partial regeneration: when get_predictions refreshes and its
\* generation pass has enough history and commits, that one pass appends a new
\* record for every requested horizon, those that already had a record
\* included, all with the same generated_at, and the latest record of every
\* requested horizon comes from that pass.  A pass without enough history
\* appends nothing for any horizon.
C21_Step ==
    last' # last /\ last'.op = "get_predictions" /\ last'.refreshed =>
        /\ last'.committed => C21_WholeBatch
        /\ ~last'.committed => predictions' = predictions
        /\ ~last'.committed /\ ~last'.raised => last'.path = "insufficient"

C21_NoPartialRegeneration == [][C21_Step]_vars

\* C21 as the specification states it: every call that refreshes appends a
\* record for every requested horizon.
C21_AsStated ==
    [][last' # last /\ last'.op = "get_predictions" /\ last'.refreshed /\ ~last'.raised
           => C21_WholeBatch]_vars

\* A call asked for 1h and 1d when 1h had a fresh record and 1d had none: the
\* pass appended a record for both.
C21_Witness ==
    /\ Called /\ last.op = "get_predictions" /\ last.refreshed /\ last.committed
    /\ HoursOf(last.request) = <<1, 24>>
    /\ \E p \in predictions :
          /\ p.symbol = SymbolOf(last.request) /\ p.horizon_hours = 1
          /\ p.prediction_time < last.at /\ last.at - p.prediction_time <= 45
    /\ \A p \in predictions :
          p.symbol = SymbolOf(last.request) /\ p.horizon_hours = 24 => p \in last.rows
    /\ \E r \in last.rows : r.horizon_hours = 1

\* C22.  Every item that is not simulated and that a get_predictions call
\* returns comes from a record generated at most 45 minutes before the call.
C22_MaximumAge ==
    Returned /\ last.op = "get_predictions" =>
        \A i \in 1..Len(Items) :
            Items[i].model_version # "simulated" =>
                last.at - Items[i].generated_at <= StalenessMinutes

\* The symbol a cache key of a prediction response is for.
KeyIsFor(key, symbol) == StartsWith(key, "predictions:" \o symbol \o ":")

\* C23.  When every worker has returned, an entry that remains in the cache
\* for a symbol holds, for each horizon that has records, the item of the most
\* recent record of that horizon.
C23_LastInvalidationWins ==
    (\A w \in Workers : inflight[w].pc = "done") =>
        \A key \in DOMAIN redis, symbol \in StoreSymbols :
            KeyIsFor(key, symbol) =>
                \A items \in {redis[key].payload.predictions} :
                \A i \in 1..Len(items), hours \in Range(AllHorizonHours) :
                    /\ items[i].horizon = format_horizon(hours)
                    /\ RecordsOf(predictions, symbol, hours) # {}
                    => items[i].generated_at[2]
                           = NewestOf(predictions, symbol, hours).prediction_time

\* The paths of a pass that end in the moving-average fallback.
FallbackPaths == {"bootstrap", "fit_raised", "predict_raised"}

\* C24.  A generation pass goes NEEDS_HISTORY -> TRAINING -> (TRAINED or
\* FALLBACK_MA) -> PERSISTED: it adds records only when the history check
\* passed; in simple-bootstrap mode it takes the fallback without coming to
\* the model fit, otherwise it comes to the fit; the records of one pass all
\* carry one model_version, "prophet-1.1.5" on the trained path and
\* "prophet-ma-fallback" on a fallback path; and the records reach the table
\* in one commit, all of them or none.
C24_Step ==
    last'.op = "_generate_prophet_predictions" /\ calls' = calls + 1 =>
        /\ last'.rows # {} =>
              /\ HistoryPoints(market_data', last'.symbol) >= MIN_HISTORY_POINTS
              /\ DistinctPoints(market_data', last'.symbol) >= MIN_HISTORY_POINTS
              /\ last'.path \in FallbackPaths \cup {"trained"}
              /\ SIMPLE_BOOTSTRAP => /\ last'.path = "bootstrap"
                                      /\ last'.reached \cap {"fit", "predict"} = {}
              /\ ~SIMPLE_BOOTSTRAP => /\ last'.path # "bootstrap"
                                       /\ "fit" \in last'.reached
              /\ last'.path = "trained" =>
                    \A r \in last'.rows : r.model_version = MODEL_VERSION
              /\ last'.path \in FallbackPaths =>
                    \A r \in last'.rows : r.model_version = FALLBACK_VERSION
              /\ "commit" \in last'.reached
        /\ last'.rows = {} => last'.path = "insufficient" /\ ~last'.committed
        /\ last'.committed => predictions' = predictions \cup last'.rows
        /\ ~last'.committed => predictions' = predictions
        /\ last'.committed <=> last'.rows # {} /\ ~last'.raised

C24_PassStates == [][C24_Step]_vars

\* A pass whose model fit raised: every record it committed carries the
\* fallback tag.
C24_Witness ==
    /\ last.op = "_generate_prophet_predictions"
    /\ last.path = "fit_raised"
    /\ last.committed
    /\ Cardinality(last.rows) > 1
    /\ \A r \in last.rows : r.model_version = FALLBACK_VERSION /\ r \in predictions

\* The records a pass for `symbol` read from the market_data table `md`.
PassRecords(md, symbol, target_hours) ==
    RecentRows(md[symbol],
               Max(Max(Len(target_hours) * 24, MARKET_DATA_LOOKBACK_DAYS * 24), 200))

\* The last close of the training frame of those records.
PassPrice(md, symbol, target_hours) ==
    prepare_training_frame(PassRecords(md, symbol, target_hours))[
        Len(prepare_training_frame(PassRecords(md, symbol, target_hours)))].y

\* clamp(0.5 + clamp(relative_delta * 0.75, -0.45, 0.45) + sentiment_factor * 0.15
\*       + volume_momentum * 0.10, 0.02, 0.98), in basis points.
ProbabilityFormula(predicted, current_price, sentiment_factor, volume_momentum) ==
    Clamp(5000 + Clamp(Quot((predicted - current_price) * 7500, current_price), -4500, 4500)
               + Quot(sentiment_factor * 15, 100) + Quot(volume_momentum * 10, 100),
          200, 9800)

\* C25.  Every record a generation pass persists, on the trained path and on
\* the moving-average fallback alike, has probability_up equal to the formula
\* applied to its predicted price, the current price, and the sentiment factor
\* and volume momentum computed in that pass.
C25_ProbabilityFormula ==
    last.op = "_generate_prophet_predictions" =>
        \A r \in last.rows :
            r.accuracy_score =
                Some(ProbabilityFormula(
                         r.predicted_price,
                         PassPrice(market_data, last.symbol, last.target_hours),
                         get_sentiment_factor(last.proxy),
                         get_volume_momentum(
                             PassRecords(market_data, last.symbol, last.target_hours))))

\* C25 on the trained path alone.
C25_TrainedPath ==
    last.op = "_generate_prophet_predictions" /\ last.path = "trained" =>
        C25_ProbabilityFormula

InUnit(x) == -10000 <= x /\ x <= 10000

\* C26.  Every record a generation pass persists, whichever path produced it,
\* holds in its features the sentiment factor, the volume momentum and the
\* market correlation computed in that pass, each within [-1, 1].
C26_FeatureSnapshot ==
    last.op = "_generate_prophet_predictions" =>
        \A r \in last.rows :
            /\ r.features_used # None
            /\ {"sentiment", "volume_momentum", "market_correlation"}
                   \subseteq DOMAIN r.features_used[1]
            /\ r.features_used[1].sentiment = get_sentiment_factor(last.proxy)
            /\ r.features_used[1].volume_momentum =
                   get_volume_momentum(
                       PassRecords(market_data, last.symbol, last.target_hours))
            /\ r.features_used[1].market_correlation =
                   get_market_correlation_factor(last.symbol, market_data["BTC"])
            /\ InUnit(r.features_used[1].sentiment)
            /\ InUnit(r.features_used[1].volume_momentum)
            /\ InUnit(r.features_used[1].market_correlation)

\* C26 on the trained path alone.
C26_TrainedPath ==
    last.op = "_generate_prophet_predictions" /\ last.path = "trained" =>
        C26_FeatureSnapshot

\* The positive volumes among the last 24 of a series.
PositiveRecent(volumes) ==
    Cardinality({i \in Max(1, Len(volumes) - 23)..Len(volumes) : volumes[i] > 0})

Occurrences(xs, s) == Cardinality({i \in 1..Len(xs) : xs[i] = s})

\* Two requests of one shape: the same symbol up to letter case, the same
\* horizon strings up to order, the same flags.
SameShape(a, b) ==
    /\ Upper(a.symbol) = Upper(b.symbol)
    /\ Len(a.horizons) = Len(b.horizons)
    /\ \A i \in 1..Len(a.horizons) :
          Occurrences(a.horizons, a.horizons[i]) = Occurrences(b.horizons, a.horizons[i])
    /\ a.include_confidence = b.include_confidence
    /\ a.include_factors = b.include_factors

\* C28.  Two get_cached_predictions requests map to the same cache key if and
\* only if they have the same symbol up to letter case, the same horizon
\* strings up to order (or both none) and the same flags.
C28_Separating ==
    last.op = "_cache_key_for_predictions" =>
        ((last.result[1] = last.result[2]) <=> SameShape(last.args[1], last.args[2]))

\* The canonical half: requests of one shape share their key.
C28_Canonical ==
    last.op = "_cache_key_for_predictions" =>
        (SameShape(last.args[1], last.args[2]) => last.result[1] = last.result[2])

\* C29.  After any sequence of upserts by timestamp (fetch_market_history over
\* any list of candles, a list that repeats a timestamp included) the Market
\* History Store holds at most one bar per (symbol, timestamp).
C29_UniqueBars ==
    \A symbol \in DOMAIN market_data :
        DistinctPoints(market_data, symbol) = HistoryPoints(market_data, symbol)

\* C30.  On a cache hit get_cached_predictions returns the stored response
\* without evaluating the staleness policy, without touching the Prediction
\* Store and without running the engine, and leaves the entry as it is.  An
\* unexpired entry that Redis can be asked for is a hit, and an unexpired entry
\* is removed or replaced by no call other than one whose generation pass for
\* the entry's symbol invalidates it: the response stays served until its TTL
\* expires or such a pass runs, whatever the age of the records it was built
\* from.
C30_Step ==
    LET call == last'
        key == call.cache_key
        asked == call.faults \cap {"redis_get", "redis_down"} = {}
    IN  call.op = "get_cached_predictions" =>
            /\ call.hit =>
                  /\ ~call.raised /\ call.loader_calls = 0
                  /\ ~call.refreshed /\ call.path = NoPass.path /\ call.rows = {}
                  /\ ~call.committed /\ ~call.invalidated /\ ~call.stored
                  /\ predictions' = predictions /\ market_data' = market_data
                  /\ key \in DOMAIN redis /\ redis[key].expires_at > clock'
                  /\ call.response = Some(parse_response(deserialize(redis[key].payload)))
                  /\ redis' = Unexpired(redis, clock')
            /\ asked /\ key \in DOMAIN redis /\ redis[key].expires_at > clock' => call.hit
            /\ \A k \in DOMAIN Unexpired(redis, clock') :
                  \/ k \in DOMAIN redis' /\ redis'[k] = redis[k]
                  \/ call.invalidated /\ KeyIsFor(k, Upper(call.request.symbol))
                  \/ k = key /\ ~asked
C30_CacheHitFrame == [][C30_Step]_vars

\* C30 witness: a hit at a moment when the staleness policy, had it been asked,
\* would have decided to refresh the records of the request.
C30_Witness ==
    /\ Returned /\ last.op = "get_cached_predictions" /\ last.hit
    /\ needs_refresh(QueryPredictions(predictions, Upper(last.request.symbol),
                                      TargetHours(last.request.horizons)),
                     TargetHours(last.request.horizons), last.at)

====
